---- MODULE Spec2Model ----
(***************************************************************************)
(* Verification model of claude-gateway's hot request path: the router     *)
(* (credential health registry, stickiness cache, credential selection)    *)
(* and the request orchestrators of the OpenAI and Anthropic facades.      *)
(*                                                                         *)
(* Time is an integer number of seconds.  A handler is cut into steps at   *)
(* the points where other goroutines can interleave with an effect on the  *)
(* router: between pickCredentialFromPool and startRequest (two separate   *)
(* critical sections), and while the upstream call is outstanding.         *)
(***************************************************************************)
EXTENDS Integers, Sequences, FiniteSets, TLC

(***************************************************************************)
(* Bounds of the model.                                                    *)
(***************************************************************************)
MaxTime == 90
MaxFailures == 7
MaxEnds == 8
MaxCfgTime == 7
MaxLoads == 3
MaxBlocks == 3
MaxPublish == 4
MaxQueue == 2
MaxTries == 2

ReqIds == {1, 2}
GetterIds == {1, 2}
SubIds == {1, 2}
TickSteps == {45}
CfgTickSteps == {2, 3}
LatenciesMs == {2500}

(***************************************************************************)
(* Program constants.                                                      *)
(***************************************************************************)
routeCacheTT == 90
cacheTTL == 5
defaultRingCap == 200
StatusUnauthorized == 401
StatusForbidden == 403
StatusTooManyRequests == 429
StatusOK == 200
StatusBadRequest == 400
StatusNotImplemented == 501
StatusBadGateway == 502
StatusServiceUnavailable == 503


(***************************************************************************)
(* Strings that the code normalises are sequences of characters.           *)
(***************************************************************************)
RECURSIVE TrimLeft(_)
TrimLeft(s) == IF s # <<>> /\ Head(s) = " " THEN TrimLeft(Tail(s)) ELSE s

RECURSIVE TrimRight(_)
TrimRight(s) ==
    IF s # <<>> /\ s[Len(s)] = " " THEN TrimRight(SubSeq(s, 1, Len(s) - 1)) ELSE s

TrimSpace(s) == TrimRight(TrimLeft(s))

ToLowerChar(ch) ==
    CASE ch = "M" -> "m"
      [] ch = "O" -> "o"
      [] ch = "A" -> "a"
      [] OTHER -> ch

ToLower(s) == [i \in 1..Len(s) |-> ToLowerChar(s[i])]

EqualFold(a, b) == ToLower(a) = ToLower(b)

FacadeOpenAI == <<"o", "p", "e", "n", "a", "i">>
FacadeAnthropic == <<"a", "n", "t", "h", "r", "o", "p", "i", "c">>

Str_m == <<"m">>
Str_sp_m == <<" ", "m">>
Str_M == <<"M">>
Str_empty == <<>>

minInt(a, b) == IF a < b THEN a ELSE b

RECURSIVE Pow2(_)
Pow2(n) == IF n = 0 THEN 1 ELSE 2 * Pow2(n - 1)

RECURSIVE GCD(_, _)
GCD(a, b) == IF b = 0 THEN a ELSE GCD(b, a % b)

Range(f) == {f[x] : x \in DOMAIN f}

(***************************************************************************)
(* Configuration store and snapshot loader.                                *)
(*                                                                         *)
(* A store value holds the rows of the three tables.  Providers publish    *)
(* no models set (models_json empty), so the alias fallback of pickUpstream*)
(* is never taken.  KeyOK says whether the ciphertext of a credential      *)
(* decrypts under the master key.                                          *)
(***************************************************************************)
ProvRow(type, enabled, modelMap) ==
    [Type |-> type, Enabled |-> enabled, ModelMap |-> modelMap]

CredRow(prov, weight, limit, enabled, keyOK) ==
    [ProviderID |-> prov, Weight |-> weight, ConcurrencyLimit |-> limit,
     Enabled |-> enabled, KeyOK |-> keyOK]

TierItem(prov, weight) == [ProviderID |-> prov, Weight |-> weight]

Tier(strategy, models, items) ==
    [Strategy |-> strategy, Models |-> models, Items |-> items]

PoolRow(id, ckey, strategy, tiers, ids, modelMap) ==
    [ID |-> id, ClientKey |-> ckey, Strategy |-> strategy, Tiers |-> tiers,
     CredentialIDs |-> ids, ExpandedCredentialIDs |-> <<>>,
     ModelMap |-> modelMap, Enabled |-> TRUE]

NoMap == <<>>
MapMToUpper == [x \in {Str_m} |-> Str_M]

\* Flat pool, weighted round robin over credentials of two dialects; the
\* first credential has a concurrency limit of 1.
StoreFlat ==
    [providers |-> (1 :> ProvRow("openai", TRUE, NoMap)
                    @@ 2 :> ProvRow("anthropic", TRUE, NoMap)),
     credentials |-> (1 :> CredRow(1, 2, 1, TRUE, TRUE)
                      @@ 2 :> CredRow(2, 1, 0, TRUE, TRUE)),
     pools |-> (1 :> PoolRow(1, "k1", "weighted_rr", <<>>, <<1, 2>>, NoMap))]

\* Flat pool whose second credential belongs to a disabled provider and whose
\* first provider speaks the Gemini dialect.
StoreFlatOther ==
    [providers |-> (1 :> ProvRow("gemini", TRUE, NoMap)
                    @@ 2 :> ProvRow("openai", FALSE, NoMap)),
     credentials |-> (1 :> CredRow(1, 1, 0, TRUE, TRUE)
                      @@ 2 :> CredRow(2, 1, 0, TRUE, TRUE)),
     pools |-> (1 :> PoolRow(1, "k1", "least_inflight", <<>>, <<1, 2>>, NoMap))]

\* Tiered pool, priority strategy: a tier reserved to model "M" with the
\* Anthropic provider (which maps m to M), then a tier for everything.
StorePriority ==
    [providers |-> (1 :> ProvRow("anthropic", TRUE, MapMToUpper)
                    @@ 2 :> ProvRow("openai", TRUE, NoMap)),
     credentials |-> (1 :> CredRow(1, 5, 0, TRUE, TRUE)
                      @@ 2 :> CredRow(2, 1, 0, TRUE, TRUE)),
     pools |-> (1 :> PoolRow(1, "k1", "priority_failover",
                             <<Tier("priority", <<Str_M>>, <<TierItem(1, 1)>>),
                               Tier("priority", <<>>, <<TierItem(2, 1), TierItem(1, 1)>>)>>,
                             <<>>, NoMap))]

\* Tiered pool, weighted strategy over one provider holding both credentials;
\* the second credential's key does not decrypt.
StoreWeighted ==
    [providers |-> (1 :> ProvRow("openai", TRUE, NoMap)
                    @@ 2 :> ProvRow("gemini", TRUE, NoMap)),
     credentials |-> (1 :> CredRow(1, 1, 1, TRUE, TRUE)
                      @@ 2 :> CredRow(1, 1, 0, TRUE, FALSE)),
     pools |-> (1 :> PoolRow(1, "k1", "weighted_rr",
                             <<Tier("weighted_rr", <<>>, <<TierItem(1, 5), TierItem(2, 1)>>)>>,
                             <<>>, NoMap))]

Stores == {StoreFlat, StoreFlatOther, StorePriority, StoreWeighted}

CredIds == {1, 2}
PoolIds == {1}
ClientKeys == {"k1", "bad"}

\* The ids of a table in row order (ascending id).
RECURSIVE SortedIds(_)
SortedIds(S) ==
    IF S = {} THEN <<>>
    ELSE LET m == CHOOSE x \in S : \A y \in S : x <= y
         IN <<m>> \o SortedIds(S \ {m})

RECURSIVE Repeat(_, _)
Repeat(x, n) == IF n <= 0 THEN <<>> ELSE <<x>> \o Repeat(x, n - 1)

loadProviders(store) ==
    LET ids == {p \in DOMAIN store.providers : store.providers[p].Enabled}
    IN [p \in ids |-> store.providers[p]]

loadCredentials(store) ==
    LET ids == {c \in DOMAIN store.credentials : store.credentials[c].Enabled}
    IN [c \in ids |->
          [store.credentials[c] EXCEPT
             !.Weight = IF store.credentials[c].Weight <= 0 THEN 1
                        ELSE store.credentials[c].Weight]]

providerCredsOf(creds) ==
    LET provs == {creds[c].ProviderID : c \in DOMAIN creds}
    IN [p \in provs |-> SortedIds({c \in DOMAIN creds : creds[c].ProviderID = p})]

loadPools(store) ==
    LET ids == {p \in DOMAIN store.pools : store.pools[p].Enabled}
    IN [p \in ids |-> store.pools[p]]

RECURSIVE expandIds(_, _)
expandIds(ids, creds) ==
    IF ids = <<>> THEN <<>>
    ELSE LET c == Head(ids)
             w0 == IF c \in DOMAIN creds THEN creds[c].Weight ELSE 0
             w1 == IF w0 <= 0 THEN 1 ELSE w0
             w == IF w1 > 50 THEN 50 ELSE w1
         IN (IF c \in DOMAIN creds /\ creds[c].Enabled THEN Repeat(c, w) ELSE <<>>)
            \o expandIds(Tail(ids), creds)

expandPoolWeights(pools, creds) ==
    [p \in DOMAIN pools |->
        IF pools[p].Strategy # "weighted_rr"
        THEN [pools[p] EXCEPT !.ExpandedCredentialIDs = <<>>]
        ELSE [pools[p] EXCEPT
                !.ExpandedCredentialIDs = expandIds(pools[p].CredentialIDs, creds)]]

\* The snapshot built from the results of the three queries.
buildConfig(provs, creds, rawPools) ==
    LET pools == expandPoolWeights(rawPools, creds)
    IN [providers |-> provs,
        credentials |-> creds,
        providerCreds |-> providerCredsOf(creds),
        pools |-> pools,
        poolByClientKey |->
            [k \in {pools[p].ClientKey : p \in {q \in DOMAIN pools : pools[q].ClientKey # ""}}
               |-> pools[CHOOSE p \in DOMAIN pools : pools[p].ClientKey = k]]]

loadConfig(store) ==
    buildConfig(loadProviders(store), loadCredentials(store), loadPools(store))

(***************************************************************************)
(* State.                                                                  *)
(*   now         wall clock (seconds)                                      *)
(*   store       contents of the configuration store                       *)
(*   cache       Router.cache, the configuration snapshot                  *)
(*   credState   Router.credState: per-credential health and inflight      *)
(*   poolStates  Router.poolStates: per-pool rotation counter              *)
(*   routeCache  Router.routeCache: the stickiness entries                 *)
(*   reqs        one record per inbound request: the handler's locals and  *)
(*               its position                                              *)
(*   lastEnd     arguments and time of the latest EndRequest call on its   *)
(*               own (used by the health-registry specification)           *)
(***************************************************************************)
VARIABLES now, store, cache, credState, poolStates, routeCache, reqs, lastEnd

(***************************************************************************)
(* State of the snapshot loader (getConfig).                               *)
(*   getters   one record per caller of getConfig: its position, the time  *)
(*             it read at entry, the snapshot it holds                     *)
(*   cacheMu   Router.cacheMu: the caller holding the write lock, or 0     *)
(*   loadLog   the snapshots installed so far, in order                    *)
(***************************************************************************)
VARIABLES getters, cacheMu, loadLog

cfgVars == <<getters, cacheMu, loadLog>>

(***************************************************************************)
(*   lastRec   the latest call of RecordRouteResult: its arguments and the *)
(*             stickiness cache before it                                  *)
(*   sse       one run of the SSE transcoder: its direction, its locals,   *)
(*             the blocks read so far and the events written so far        *)
(*   bus       the log bus, its subscribers and their ServeSSE calls       *)
(***************************************************************************)
VARIABLES lastRec, sse, bus

(***************************************************************************)
(*   att       the latest iteration of a handler's attempt loop: the       *)
(*             handler's locals after pickUpstream, the upstream outcome,  *)
(*             what was written to the client, and the router before it    *)
(*   upreq     the latest request built by a provider client (do)          *)
(*   xlat      the latest request pushed through the request converters    *)
(*   scored    the latest call of credentialScore                          *)
(***************************************************************************)
VARIABLES att, upreq, xlat, scored

moreVars == <<att, upreq, xlat, scored>>

sideVars == <<lastRec, sse, bus, moreVars>>

vars == <<now, store, cache, credState, poolStates, routeCache, reqs, lastEnd,
          cfgVars, sideVars>>

\* The zero credentialState; present says whether the sync.Map holds an entry.
ZeroCredState ==
    [present |-> FALSE, inflight |-> 0, failures |-> 0, successes |-> 0,
     total |-> 0, ewmaLatency |-> 0, openUntil |-> 0]

getInflight(cs, c) == IF cs[c].present THEN cs[c].inflight ELSE 0

\* The circuit test with the comparison the wrong way round.
isCredentialOpen_reversed(cs, c, t) ==
    cs[c].present /\ cs[c].openUntil # 0 /\ cs[c].openUntil < t

\* openUntil = 0 is the zero time.Time.
isCredentialOpen(cs, c, t) ==
    cs[c].present /\ cs[c].openUntil # 0 /\ t < cs[c].openUntil

startRequest(cs, c) ==
    [cs EXCEPT ![c] = [@ EXCEPT !.present = TRUE, !.inflight = @ + 1]]

\* The durations without the two-minute cap of the 429 case.
OpenDuration_noCap(status, failures) ==
    IF status = StatusUnauthorized \/ status = StatusForbidden
    THEN 15 * 60
    ELSE IF status = StatusTooManyRequests
    THEN 5 * Pow2(minInt(failures, 6))
    ELSE IF status >= 500 \/ status = 0
    THEN (IF 15 * Pow2(minInt(failures, 6)) > 5 * 60 THEN 5 * 60
          ELSE 15 * Pow2(minInt(failures, 6)))
    ELSE IF failures >= 3 THEN 30
    ELSE 0

\* The circuit duration chosen by EndRequest for a failure, given the failure
\* count after the increment; 0 when openUntil is left as it is.
OpenDuration(status, failures) ==
    IF status = StatusUnauthorized \/ status = StatusForbidden
    THEN 15 * 60
    ELSE IF status = StatusTooManyRequests
    THEN (IF 5 * Pow2(minInt(failures, 6)) > 2 * 60 THEN 2 * 60
          ELSE 5 * Pow2(minInt(failures, 6)))
    ELSE IF status >= 500 \/ status = 0
    THEN (IF 15 * Pow2(minInt(failures, 6)) > 5 * 60 THEN 5 * 60
          ELSE 15 * Pow2(minInt(failures, 6)))
    ELSE IF failures >= 3 THEN 30
    ELSE 0

EndSuccess(ok, status) ==
    /\ ok
    /\ status >= 200
    /\ status < 500
    /\ status # StatusTooManyRequests
    /\ status # StatusUnauthorized
    /\ status # StatusForbidden

\* ewmaLatency is kept in milliseconds; the latencies fed to the model keep
\* 0.8*prev + 0.2*lat an integer.
EwmaAfter(prev, latMs) ==
    IF prev = 0 THEN latMs
    ELSE IF latMs > 0 THEN (prev * 8 + latMs * 2) \div 10
    ELSE prev

EndRequest(cs, c, ok, status, latMs, t) ==
    IF c = 0 THEN cs
    ELSE
      LET st == cs[c]
          base == [st EXCEPT !.present = TRUE,
                             !.inflight = @ - 1,
                             !.total = @ + 1,
                             !.ewmaLatency = EwmaAfter(@, latMs)]
          f == st.failures + 1
          d == OpenDuration(status, f)
      IN [cs EXCEPT ![c] =
            IF EndSuccess(ok, status)
            THEN [base EXCEPT !.successes = @ + 1, !.failures = 0, !.openUntil = 0]
            ELSE [base EXCEPT !.failures = f,
                              !.openUntil = IF d > 0 THEN t + d ELSE @]]

(***************************************************************************)
(* Stickiness cache.                                                       *)
(***************************************************************************)
routeKey(poolID, facade, model) ==
    <<poolID, ToLower(TrimSpace(facade)), TrimSpace(model)>>

\* Eviction on server errors alone.
EvictionStatus_serverOnly(status) == status >= 500

EvictionStatus(status) ==
    \/ status = StatusUnauthorized
    \/ status = StatusForbidden
    \/ status = StatusTooManyRequests
    \/ status >= 500
    \/ status = 0

DropKey(rc, key) == [k \in (DOMAIN rc) \ {key} |-> rc[k]]

PutKey(rc, key, ent) == [k \in (DOMAIN rc) \cup {key} |-> IF k = key THEN ent ELSE rc[k]]

RecordRouteResult(rc, poolID, facade, model, credentialID, ok, status, t) ==
    IF poolID = 0 \/ credentialID = 0 THEN rc
    ELSE
      LET key == routeKey(poolID, facade, model)
      IN IF ok
         THEN PutKey(rc, key, [credentialID |-> credentialID,
                               expiresAt |-> t + routeCacheTT])
         ELSE IF /\ EvictionStatus(status)
                 /\ key \in DOMAIN rc
                 /\ rc[key].credentialID = credentialID
         THEN DropKey(rc, key)
         ELSE rc

(***************************************************************************)
(* Credential score.  The code computes it in float64; the model keeps it  *)
(* as a fraction n/d in lowest terms with d > 0, d = 0 standing for +Inf   *)
(* (1/(1+inflight) with inflight = -1) and n = d = 0 for NaN.              *)
(***************************************************************************)
Abs(x) == IF x < 0 THEN 0 - x ELSE x

Frac(n, d) ==
    IF d = 0 THEN [n |-> IF n = 0 THEN 0 ELSE 1, d |-> 0]
    ELSE LET g == GCD(Abs(n), Abs(d))
             sgn == IF d < 0 THEN 0 - 1 ELSE 1
         IN [n |-> sgn * (n \div g), d |-> sgn * (d \div g)]

IsInf(a) == a.d = 0 /\ a.n # 0
IsNaN(a) == a.d = 0 /\ a.n = 0

FracGT(a, b) ==
    IF IsNaN(a) \/ IsNaN(b) THEN FALSE
    ELSE IF IsInf(a) THEN ~IsInf(b)
    ELSE IF IsInf(b) THEN FALSE
    ELSE a.n * b.d > b.n * a.d

FracLE(a, b) ==
    IF IsNaN(a) \/ IsNaN(b) THEN FALSE
    ELSE IF IsInf(b) THEN TRUE
    ELSE IF IsInf(a) THEN FALSE
    ELSE a.n * b.d <= b.n * a.d

FracAdd(a, b) ==
    IF IsNaN(a) \/ IsNaN(b) THEN Frac(0, 0)
    ELSE IF IsInf(a) \/ IsInf(b) THEN Frac(1, 0)
    ELSE Frac(a.n * b.d + b.n * a.d, a.d * b.d)

\* a * (k / m) for integers k >= 0 and m > 0.
FracScale(a, k, m) ==
    IF IsNaN(a) THEN a
    ELSE IF IsInf(a) THEN (IF k = 0 THEN Frac(0, 0) ELSE a)
    ELSE Frac(a.n * k, a.d * m)

credentialScore(cs, c, baseWeight0) ==
    LET baseWeight == IF baseWeight0 <= 0 THEN 1 ELSE baseWeight0
        inflight == getInflight(cs, c)
        st == cs[c]
    IN IF ~st.present THEN Frac(baseWeight, 1 + inflight)
       ELSE Frac(baseWeight * (st.successes + 1) * 2500,
                 (st.total + 2) * (1 + st.failures) * (2500 + st.ewmaLatency)
                    * (1 + inflight))

(***************************************************************************)
(* Credential selection.                                                   *)
(***************************************************************************)
\* isAvailable without the test of the exclude set.
isAvailable_noExclude(cfg, cs, exclude, t, credID) ==
    /\ credID \in DOMAIN cfg.credentials
    /\ cfg.credentials[credID].Enabled
    /\ ~isCredentialOpen(cs, credID, t)
    /\ ~(/\ cfg.credentials[credID].ConcurrencyLimit > 0
         /\ getInflight(cs, credID) >= cfg.credentials[credID].ConcurrencyLimit)

isAvailable(cfg, cs, exclude, t, credID) ==
    /\ credID \notin exclude
    /\ credID \in DOMAIN cfg.credentials
    /\ cfg.credentials[credID].Enabled
    /\ ~isCredentialOpen(cs, credID, t)
    /\ ~(/\ cfg.credentials[credID].ConcurrencyLimit > 0
         /\ getInflight(cs, credID) >= cfg.credentials[credID].ConcurrencyLimit)

\* A tier that applies to every model whatever its models list.
tierAppliesToModel_always(t, model) == TRUE

tierAppliesToModel(t, model) ==
    \/ Len(t.Models) = 0
    \/ TrimSpace(model) = <<>>
    \/ \E i \in 1..Len(t.Models) : EqualFold(TrimSpace(t.Models[i]), TrimSpace(model))

NotFound == [found |-> FALSE, cid |-> 0, score |-> Frac(0, 1)]

\* The scan of pickBestKey over creds[i..]: the first credential with the
\* strictly highest score among the available ones.
RECURSIVE bestOf(_, _, _, _, _, _)
bestOf(cfg, cs, exclude, t, creds, best) ==
    IF creds = <<>> THEN best
    ELSE LET cid == Head(creds)
             score == credentialScore(cs, cid, cfg.credentials[cid].Weight)
         IN IF ~isAvailable(cfg, cs, exclude, t, cid)
            THEN bestOf(cfg, cs, exclude, t, Tail(creds), best)
            ELSE IF ~best.found \/ FracGT(score, best.score)
            THEN bestOf(cfg, cs, exclude, t, Tail(creds),
                        [found |-> TRUE, cid |-> cid, score |-> score])
            ELSE bestOf(cfg, cs, exclude, t, Tail(creds), best)

pickBestKey(cfg, cs, exclude, t, provID) ==
    IF provID \notin DOMAIN cfg.providers THEN NotFound
    ELSE IF provID \notin DOMAIN cfg.providerCreds THEN NotFound
    ELSE bestOf(cfg, cs, exclude, t, cfg.providerCreds[provID], NotFound)

\* Priority tier: the first item that yields a candidate.
RECURSIVE priorityPick(_, _, _, _, _)
priorityPick(cfg, cs, exclude, t, items) ==
    IF items = <<>> THEN NotFound
    ELSE LET b == pickBestKey(cfg, cs, exclude, t, Head(items).ProviderID)
         IN IF b.found THEN b ELSE priorityPick(cfg, cs, exclude, t, Tail(items))

\* Weighted tier: the candidates (cid, item weight * key score), in item order.
RECURSIVE weightedCandidates(_, _, _, _, _)
weightedCandidates(cfg, cs, exclude, t, items) ==
    IF items = <<>> THEN <<>>
    ELSE LET it == Head(items)
             w == IF it.Weight <= 0 THEN 1 ELSE it.Weight
             b == pickBestKey(cfg, cs, exclude, t, it.ProviderID)
             rest == weightedCandidates(cfg, cs, exclude, t, Tail(items))
         IN IF b.found
            THEN <<[cid |-> b.cid, score |-> FracScale(b.score, w, 1)]>> \o rest
            ELSE rest

RECURSIVE sumScores(_)
sumScores(cands) ==
    IF cands = <<>> THEN Frac(0, 1)
    ELSE FracAdd(Head(cands).score, sumScores(Tail(cands)))

\* The draw loop: current accumulates the scores; the first candidate with
\* pick <= current wins, the last one otherwise.
RECURSIVE drawFrom(_, _, _)
drawFrom(cands, pick, current0) ==
    LET current == FracAdd(current0, Head(cands).score)
    IN IF FracLE(pick, current) \/ Len(cands) = 1 THEN Head(cands).cid
       ELSE drawFrom(Tail(cands), pick, current)

\* Result of a selection: found, the credential, and whether the pool's
\* rotation counter was incremented.
PickRes(found, cid, bump) == [found |-> found, cid |-> cid, bump |-> bump]

RECURSIVE tiersPick(_, _, _, _, _, _, _)
tiersPick(cfg, cs, exclude, t, tiers, model, counter) ==
    IF tiers = <<>> THEN PickRes(FALSE, 0, FALSE)
    ELSE LET tier == Head(tiers)
             next == tiersPick(cfg, cs, exclude, t, Tail(tiers), model, counter)
         IN IF ~tierAppliesToModel(tier, model) THEN next
            ELSE IF Len(tier.Items) = 0 THEN next
            ELSE IF tier.Strategy = "priority"
            THEN LET b == priorityPick(cfg, cs, exclude, t, tier.Items)
                 IN IF b.found THEN PickRes(TRUE, b.cid, FALSE) ELSE next
            ELSE LET cands == weightedCandidates(cfg, cs, exclude, t, tier.Items)
                     totalWeight == sumScores(cands)
                     count == counter + 1
                     pick == FracScale(totalWeight, count % 1000, 1000)
                 IN IF Len(cands) = 0 THEN next
                    ELSE IF FracLE(totalWeight, Frac(0, 1))
                    THEN PickRes(TRUE, cands[1].cid, FALSE)
                    ELSE PickRes(TRUE, drawFrom(cands, pick, Frac(0, 1)), TRUE)

\* The rotation over the flat list: positions count, count+1, ... mod n.
RECURSIVE rotatePick(_, _, _, _, _, _, _)
rotatePick(cfg, cs, exclude, t, ids, count, i) ==
    IF i >= Len(ids) THEN PickRes(FALSE, 0, TRUE)
    ELSE LET cid == ids[((count + i) % Len(ids)) + 1]
         IN IF isAvailable(cfg, cs, exclude, t, cid) THEN PickRes(TRUE, cid, TRUE)
            ELSE rotatePick(cfg, cs, exclude, t, ids, count, i + 1)

legacyPick(cfg, cs, exclude, t, pool, counter) ==
    LET ids == IF pool.Strategy = "weighted_rr" /\ Len(pool.ExpandedCredentialIDs) > 0
               THEN pool.ExpandedCredentialIDs
               ELSE pool.CredentialIDs
    IN IF Len(ids) = 0 THEN PickRes(FALSE, 0, FALSE)
       ELSE rotatePick(cfg, cs, exclude, t, ids, counter + 1, 0)

\* The lookup with the expiry compared the wrong way round.
stickyHit_reversed(cfg, cs, rc, exclude, t, key) ==
    /\ key \in DOMAIN rc
    /\ rc[key].expiresAt < t
    /\ isAvailable(cfg, cs, exclude, t, rc[key].credentialID)

\* The stickiness lookup at the head of pickCredentialFromPool.
stickyHit(cfg, cs, rc, exclude, t, key) ==
    /\ key \in DOMAIN rc
    /\ t < rc[key].expiresAt
    /\ isAvailable(cfg, cs, exclude, t, rc[key].credentialID)

pickCredentialFromPool(cfg, cs, rc, exclude, t, pool, facade, model, counter) ==
    LET key == routeKey(pool.ID, facade, model)
    IN IF stickyHit(cfg, cs, rc, exclude, t, key)
       THEN PickRes(TRUE, rc[key].credentialID, FALSE)
       ELSE IF Len(pool.Tiers) > 0
       THEN tiersPick(cfg, cs, exclude, t, pool.Tiers, model, counter)
       ELSE legacyPick(cfg, cs, exclude, t, pool, counter)

\* The route cache after pickCredentialFromPool: an expired entry for the key
\* is dropped.
routeCacheAfterPick(rc, t, key) ==
    IF key \in DOMAIN rc /\ ~(t < rc[key].expiresAt) THEN DropKey(rc, key) ELSE rc

\* upstream model of pickUpstream: provider map, then pool map.
MapModel(mm, model, dflt) ==
    IF model \in DOMAIN mm /\ mm[model] # <<>> THEN mm[model] ELSE dflt

upstreamModel(prov, pool, model) ==
    MapModel(pool.ModelMap, model, MapModel(prov.ModelMap, model, model))

(***************************************************************************)
(* Request orchestrators.                                                  *)
(*                                                                         *)
(* An upstream outcome o is a transport error (o.err), or a response with  *)
(* o.status whose body or stream is consumed without error (o.good) or     *)
(* not.  A branch of a handler is a function from the handler's locals and *)
(* the outcome to the router calls it makes and the way it leaves the      *)
(* attempt:                                                                *)
(*   ends    the EndRequest calls (ok, status), in order                   *)
(*   recs    the RecordRouteResult calls (ok, status), in order            *)
(*   excl    whether the credential is added to exclude                    *)
(*   retry   continue with the next attempt (otherwise return)             *)
(*   status, ok, err   the handler's locals at that point                  *)
(***************************************************************************)
Statuses == {200, 400, 401, 429, 500}

Outcomes ==
    {[err |-> TRUE, status |-> 0]}
    \cup {[err |-> FALSE, status |-> s] : s \in Statuses}

Call(ok, status) == [ok |-> ok, status |-> status]

Plan(ends, recs, excl, retry, status, ok, err) ==
    [ends |-> ends, recs |-> recs, excl |-> excl, retry |-> retry,
     status |-> status, ok |-> ok, err |-> err]

\* The attempt budget without the streaming case.
maxAttempts_noStreamCase(rq) == 2

maxAttempts(rq) == IF rq.stream THEN 1 ELSE 2

upstreamOK(status) == status < 500 /\ status # StatusTooManyRequests

\* chatCompletions, case "openai" (same dialect).
chatCompletionsOpenAI(rq, o) ==
    IF o.err
    THEN Plan(<<Call(FALSE, 0)>>, <<>>, TRUE, rq.attempt + 1 < maxAttempts(rq),
              0, FALSE, TRUE)
    ELSE LET status == o.status
             ok == upstreamOK(status)
             first == IF ~ok THEN <<Call(FALSE, status)>> ELSE <<>>
             okFinal == o.good /\ ok
         IN IF ~ok /\ rq.attempt + 1 < maxAttempts(rq)
            THEN Plan(first, <<>>, TRUE, TRUE, status, ok, FALSE)
            ELSE IF rq.stream
            THEN Plan(first \o <<Call(okFinal, status)>>, <<Call(okFinal, status)>>,
                      ~ok, FALSE, status, ok, FALSE)
            ELSE Plan(first \o <<Call(ok, status)>>, <<Call(ok, status)>>,
                      ~ok, FALSE, status, ok, FALSE)

\* chatCompletions, case "anthropic" (request and response transcoded).
chatCompletionsAnthropic(rq, o) ==
    IF o.err
    THEN Plan(<<Call(FALSE, 0)>>, <<>>, TRUE, rq.attempt + 1 < maxAttempts(rq),
              0, FALSE, TRUE)
    ELSE LET status == o.status
             ok == upstreamOK(status)
             okFinal == o.good /\ ok
         IN IF status < 200 \/ status >= 300
            THEN Plan(<<Call(FALSE, status)>>, <<>>, TRUE,
                      ~ok /\ rq.attempt + 1 < maxAttempts(rq), status, ok, FALSE)
            ELSE IF rq.stream
            THEN Plan(<<Call(okFinal, status)>>, <<Call(okFinal, status)>>,
                      FALSE, FALSE, status, ok, FALSE)
            ELSE IF ~o.good
            THEN Plan(<<Call(FALSE, status)>>, <<>>, FALSE, FALSE, status, ok, FALSE)
            ELSE Plan(<<Call(TRUE, status)>>, <<Call(TRUE, status)>>,
                      FALSE, FALSE, status, ok, FALSE)

\* chatCompletions, case "gemini" (non-streaming only).
chatCompletionsGemini(rq, o) ==
    IF o.err
    THEN Plan(<<Call(FALSE, 0)>>, <<>>, TRUE, rq.attempt + 1 < maxAttempts(rq),
              0, FALSE, TRUE)
    ELSE LET status == o.status
             ok == upstreamOK(status)
         IN IF status < 200 \/ status >= 300
            THEN Plan(<<Call(FALSE, status)>>, <<>>, TRUE,
                      ~ok /\ rq.attempt + 1 < maxAttempts(rq), status, ok, FALSE)
            ELSE IF ~o.good
            THEN Plan(<<Call(FALSE, status)>>, <<>>, FALSE, FALSE, status, ok, FALSE)
            ELSE Plan(<<Call(TRUE, status)>>, <<Call(TRUE, status)>>,
                      FALSE, FALSE, status, ok, FALSE)

\* createMessage, case "anthropic" (same dialect).
createMessageAnthropic(rq, o) ==
    IF o.err
    THEN Plan(<<Call(FALSE, 0)>>, <<>>, TRUE, rq.attempt + 1 < maxAttempts(rq),
              0, FALSE, TRUE)
    ELSE LET status == o.status
             ok == upstreamOK(status)
             first == IF ~ok THEN <<Call(FALSE, status)>> ELSE <<>>
             okFinal == o.good /\ ok
         IN IF ~ok /\ rq.attempt + 1 < maxAttempts(rq)
            THEN Plan(first, <<>>, TRUE, TRUE, status, ok, FALSE)
            ELSE IF rq.stream
            THEN Plan(first \o <<Call(okFinal, status)>>, <<Call(okFinal, status)>>,
                      ~ok, FALSE, status, ok, FALSE)
            ELSE Plan(first \o <<Call(ok, status)>>, <<Call(ok, status)>>,
                      ~ok, FALSE, status, ok, FALSE)

\* createMessage, case "openai" (request and response transcoded).
createMessageOpenAI(rq, o) ==
    IF o.err
    THEN Plan(<<Call(FALSE, 0)>>, <<>>, TRUE, rq.attempt + 1 < maxAttempts(rq),
              0, FALSE, TRUE)
    ELSE LET status == o.status
             ok == upstreamOK(status)
             okFinal == o.good /\ ok
         IN IF status < 200 \/ status >= 300
            THEN Plan(<<Call(FALSE, status)>>, <<>>, TRUE,
                      ~ok /\ rq.attempt + 1 < maxAttempts(rq), status, ok, FALSE)
            ELSE IF rq.stream
            THEN Plan(<<Call(okFinal, status)>>, <<Call(okFinal, status)>>,
                      FALSE, FALSE, status, ok, FALSE)
            ELSE IF ~o.good
            THEN Plan(<<Call(FALSE, status)>>, <<>>, FALSE, FALSE, status, ok, FALSE)
            ELSE Plan(<<Call(TRUE, status)>>, <<Call(TRUE, status)>>,
                      FALSE, FALSE, status, ok, FALSE)

\* createMessage, case "gemini" (non-streaming only).
createMessageGemini(rq, o) ==
    IF o.err
    THEN Plan(<<Call(FALSE, 0)>>, <<>>, TRUE, rq.attempt + 1 < maxAttempts(rq),
              0, FALSE, TRUE)
    ELSE LET status == o.status
             ok == upstreamOK(status)
         IN IF status < 200 \/ status >= 300
            THEN Plan(<<Call(FALSE, status)>>, <<>>, TRUE,
                      ~ok /\ rq.attempt + 1 < maxAttempts(rq), status, ok, FALSE)
            ELSE IF ~o.good
            THEN Plan(<<Call(FALSE, status)>>, <<>>, FALSE, FALSE, status, ok, FALSE)
            ELSE Plan(<<Call(TRUE, status)>>, <<Call(TRUE, status)>>,
                      FALSE, FALSE, status, ok, FALSE)

\* responses, provider "openai" (same dialect, single attempt).
responsesOpenAI(rq, o) ==
    IF o.err
    THEN Plan(<<Call(FALSE, 0)>>, <<Call(FALSE, 0)>>, FALSE, FALSE, 0, FALSE, TRUE)
    ELSE LET status == o.status
             okFinal == (IF rq.stream THEN o.good ELSE TRUE) /\ upstreamOK(status)
         IN Plan(<<Call(okFinal, status)>>, <<Call(okFinal, status)>>,
                 FALSE, FALSE, status, okFinal, FALSE)

\* responses, provider "anthropic", after the request was transcoded.
responsesAnthropic(rq, o) ==
    IF o.err
    THEN Plan(<<Call(FALSE, 0)>>, <<>>, FALSE, FALSE, 0, FALSE, TRUE)
    ELSE LET status == o.status
             ok == upstreamOK(status)
         IN IF status < 200 \/ status >= 300
            THEN Plan(<<Call(FALSE, status)>>, <<>>, FALSE, FALSE, status, ok, FALSE)
            ELSE IF ~o.good
            THEN Plan(<<Call(FALSE, status)>>, <<>>, FALSE, FALSE, status, ok, FALSE)
            ELSE Plan(<<Call(ok, status)>>, <<Call(ok, status)>>,
                      FALSE, FALSE, status, ok, FALSE)

\* listModels of the Anthropic facade, provider "openai": the upstream answer
\* is copied; the router is not called again.
listModels(rq, o) ==
    Plan(<<>>, <<>>, FALSE, FALSE, o.status, FALSE, o.err)

\* An exit taken before any upstream call: the EndRequest calls it makes.
exitPlan(ends) == Plan(ends, <<>>, FALSE, FALSE, 0, FALSE, FALSE)

(***************************************************************************)
(* Handler positions:                                                      *)
(*   new      the request has not arrived                                  *)
(*   pick     at the head of an iteration of the attempt loop (retry)      *)
(*   picked   inside pickUpstream, after pickCredentialFromPool            *)
(*   calling  pickUpstream returned (startRequest done); the upstream call *)
(*            is outstanding                                               *)
(*   replied  the upstream call returned an error or the response headers  *)
(*   done     the handler returned                                         *)
(* conv records that the request body is known to transcode.               *)
(***************************************************************************)
Kinds == {"chat", "msg", "responses", "listModels"}
ReqModels == {Str_m, Str_sp_m}

NoUp == [CredentialID |-> 0, PoolID |-> 0, ProviderID |-> 0, ProviderType |-> "",
         Model |-> <<>>]

\* writeError: the HTTP status and the error object of the body; code is
\* empty on the Anthropic facade, whose error object has no code.
ErrorReply(status, type, code) == [status |-> status, type |-> type, code |-> code]

\* No error written by the handler for a failed pick.
NoReply == ErrorReply(0, "", "")

NewReq ==
    [pc |-> "new", kind |-> "", stream |-> FALSE, clientKey |-> "",
     model |-> <<>>, origModel |-> <<>>, attempt |-> 0, exclude |-> {},
     sel |-> 0, selPool |-> 0, up |-> NoUp, status |-> 0,
     err |-> FALSE, conv |-> FALSE, pickErr |-> "", pubs |-> 0,
     reply |-> NoReply]

\* The handler returned: its locals are gone.  pubs, the number of events it
\* published to the log bus, stays behind.
Returned(pickErr, pubs) ==
    [NewReq EXCEPT !.pc = "done", !.pickErr = pickErr, !.pubs = pubs]

\* The answer of a handler whose PickUpstream returned an error: the
\* handlers single out ErrNotConfigured (the Anthropic listModels not even
\* that) and answer every other error with 502.
routingError(kind, pickErr) ==
    CASE kind \in {"chat", "responses"} ->
           IF pickErr = "not_configured"
           THEN ErrorReply(StatusServiceUnavailable, "server_error", "not_configured")
           ELSE ErrorReply(StatusBadGateway, "server_error", "routing_failed")
      [] kind = "msg" ->
           IF pickErr = "not_configured"
           THEN ErrorReply(StatusServiceUnavailable, "overloaded_error", "")
           ELSE ErrorReply(StatusBadGateway, "api_error", "")
      [] OTHER -> ErrorReply(StatusBadGateway, "api_error", "")

\* The handler of rq returns after PickUpstream failed with pickErr.
pickFailed(rq, pickErr) ==
    [Returned(pickErr, rq.pubs) EXCEPT !.reply = routingError(rq.kind, pickErr)]

Facade(rq) ==
    IF rq.kind \in {"chat", "responses"} THEN FacadeOpenAI ELSE FacadeAnthropic

\* The model handed to PickUpstream.
PickModel(rq) == IF rq.kind = "listModels" THEN Str_empty ELSE rq.model

\* Only chatCompletions and createMessage loop.
Loops(rq) == rq.kind \in {"chat", "msg"}

ZeroProv == [Type |-> "", Enabled |-> FALSE, ModelMap |-> NoMap]

\* pickUpstream up to and including pickCredentialFromPool, run by request r
\* whose locals are rq.
PickSelect(r, rq) ==
    LET cfg == cache
    IN IF \/ DOMAIN cfg.pools = {}
          \/ DOMAIN cfg.credentials = {}
          \/ DOMAIN cfg.providers = {}
       THEN /\ reqs' = [reqs EXCEPT ![r] = pickFailed(rq, "not_configured")]
            /\ UNCHANGED <<routeCache, poolStates>>
       ELSE IF rq.clientKey \notin DOMAIN cfg.poolByClientKey
       THEN /\ reqs' = [reqs EXCEPT ![r] = pickFailed(rq, "unauthorized")]
            /\ UNCHANGED <<routeCache, poolStates>>
       ELSE LET pool == cfg.poolByClientKey[rq.clientKey]
                key == routeKey(pool.ID, Facade(rq), PickModel(rq))
                res == pickCredentialFromPool(cfg, credState, routeCache, rq.exclude,
                                              now, pool, Facade(rq), PickModel(rq),
                                              poolStates[pool.ID])
            IN /\ routeCache' = routeCacheAfterPick(routeCache, now, key)
               /\ poolStates' = IF res.bump
                                THEN [poolStates EXCEPT ![pool.ID] = @ + 1]
                                ELSE poolStates
               /\ reqs' = [reqs EXCEPT ![r] =
                             IF res.found
                             THEN [rq EXCEPT !.pc = "picked", !.sel = res.cid,
                                             !.selPool = pool.ID]
                             ELSE pickFailed(rq, "not_configured")]

\* A request arrives, is decoded, and its handler makes its first pick.
NewRequest(r) ==
    /\ reqs[r].pc = "new"
    /\ \A q \in ReqIds : q < r => reqs[q].pc # "new"
    /\ \E kind \in Kinds, stream \in BOOLEAN, ck \in ClientKeys, m \in ReqModels :
         /\ kind = "listModels" => (~stream /\ m = Str_m)
         /\ PickSelect(r, [NewReq EXCEPT !.pc = "pick", !.kind = kind, !.stream = stream,
                                         !.clientKey = ck, !.model = m,
                                         !.origModel = m])
    /\ UNCHANGED <<now, store, cache, credState, lastEnd, cfgVars, sideVars>>

\* The second iteration of the attempt loop: PickUpstreamExclude.
RetryPick(r) ==
    /\ reqs[r].pc = "pick"
    /\ PickSelect(r, reqs[r])
    /\ UNCHANGED <<now, store, cache, credState, lastEnd, cfgVars, sideVars>>

SameDialect(kind, type) ==
    \/ kind \in {"chat", "responses"} /\ type = "openai"
    \/ kind = "msg" /\ type = "anthropic"

\* The rest of pickUpstream: decrypt, map the model, startRequest.
PickStart(r) ==
    LET rq == reqs[r]
        cfg == cache
        cred == cfg.credentials[rq.sel]
        pool == cfg.pools[rq.selPool]
        prov == IF cred.ProviderID \in DOMAIN cfg.providers
                THEN cfg.providers[cred.ProviderID] ELSE ZeroProv
        upModel == upstreamModel(prov, pool, PickModel(rq))
    IN /\ rq.pc = "picked"
       /\ IF ~cred.KeyOK
          THEN /\ reqs' = [reqs EXCEPT ![r] = pickFailed(rq, "decrypt")]
               /\ UNCHANGED credState
          ELSE /\ credState' = startRequest(credState, rq.sel)
               /\ reqs' = [reqs EXCEPT ![r] =
                    [rq EXCEPT
                       !.pc = "calling",
                       !.up = [CredentialID |-> rq.sel, PoolID |-> pool.ID,
                               ProviderID |-> cred.ProviderID,
                               ProviderType |-> prov.Type, Model |-> upModel],
                       !.status = 0, !.err = FALSE,
                       !.model = IF /\ SameDialect(rq.kind, prov.Type)
                                    /\ TrimSpace(upModel) # <<>>
                                    /\ upModel # rq.model
                                 THEN upModel ELSE @]]
       /\ UNCHANGED <<now, store, cache, poolStates, routeCache, lastEnd, cfgVars, sideVars>>

RECURSIVE endAll(_, _, _, _, _)
endAll(cs, c, calls, latMs, t) ==
    IF calls = <<>> THEN cs
    ELSE endAll(EndRequest(cs, c, Head(calls).ok, Head(calls).status, latMs, t),
                c, Tail(calls), latMs, t)

RECURSIVE recordAll(_, _, _, _)
recordAll(rc, rq, calls, t) ==
    IF calls = <<>> THEN rc
    ELSE recordAll(RecordRouteResult(rc, rq.up.PoolID, Facade(rq), rq.origModel,
                                     rq.up.CredentialID, Head(calls).ok,
                                     Head(calls).status, t),
                   rq, Tail(calls), t)

\* Request r carries out plan: the router calls, then continue or return.
Carry(r, plan, pubs, latMs, conv) ==
    LET rq == reqs[r]
    IN /\ credState' = endAll(credState, rq.up.CredentialID, plan.ends, latMs, now)
       /\ routeCache' = recordAll(routeCache, rq, plan.recs, now)
       /\ reqs' = [reqs EXCEPT ![r] =
            IF ~plan.retry THEN Returned("", rq.pubs + pubs)
            ELSE [rq EXCEPT !.pc = "pick",
                            !.pubs = @ + pubs,
                            !.attempt = @ + 1,
                            !.exclude = IF plan.excl THEN @ \cup {rq.up.CredentialID}
                                        ELSE @,
                            !.status = plan.status, !.err = plan.err,
                            !.conv = conv]]

\* The branch never reaches an upstream call.
Forced(rq) ==
    LET type == rq.up.ProviderType
    IN CASE rq.kind \in {"chat", "msg"} ->
              \/ type = "gemini" /\ rq.stream
              \/ type \notin {"openai", "anthropic", "gemini"}
         [] rq.kind = "responses" ->
              \/ type = "anthropic" /\ rq.stream
              \/ type \notin {"openai", "anthropic"}
         [] OTHER -> type # "openai"

\* The branch transcodes the request, which fails on some request bodies.
Transcodes(rq) ==
    LET type == rq.up.ProviderType
    IN \/ rq.kind = "chat" /\ type = "anthropic"
       \/ rq.kind = "msg" /\ type = "openai"
       \/ rq.kind = "responses" /\ type = "anthropic"

\* The handler returns before calling upstream: unknown provider, streaming
\* not implemented, or the request does not transcode.  chatCompletions and
\* createMessage end the request on these paths; responses and listModels
\* return at once.
EarlyExit(r) ==
    LET rq == reqs[r]
    IN /\ rq.pc = "calling"
       /\ Forced(rq) \/ (Transcodes(rq) /\ ~rq.conv)
       /\ Carry(r, exitPlan(IF Loops(rq) THEN <<Call(FALSE, 0)>> ELSE <<>>), 0, 0, rq.conv)
       /\ UNCHANGED <<now, store, cache, poolStates, lastEnd, cfgVars, sideVars>>

ReplyPlan(rq, o) ==
    LET type == rq.up.ProviderType
    IN CASE rq.kind = "chat" /\ type = "openai" -> chatCompletionsOpenAI(rq, o)
         [] rq.kind = "chat" /\ type = "anthropic" -> chatCompletionsAnthropic(rq, o)
         [] rq.kind = "chat" /\ type = "gemini" -> chatCompletionsGemini(rq, o)
         [] rq.kind = "msg" /\ type = "anthropic" -> createMessageAnthropic(rq, o)
         [] rq.kind = "msg" /\ type = "openai" -> createMessageOpenAI(rq, o)
         [] rq.kind = "msg" /\ type = "gemini" -> createMessageGemini(rq, o)
         [] rq.kind = "responses" /\ type = "openai" -> responsesOpenAI(rq, o)
         [] rq.kind = "responses" /\ type = "anthropic" -> responsesAnthropic(rq, o)
         [] OTHER -> listModels(rq, o)

\* The calls of publish (h.bus.Publish) made by the attempt of rq whose
\* upstream call ended as o.
publishes(rq, o) ==
    LET type == rq.up.ProviderType
        ok == upstreamOK(o.status)
        non2xx == o.status < 200 \/ o.status >= 300
        last == ~(rq.attempt + 1 < maxAttempts(rq))
        \* a transcoding branch: every exit publishes but the one taken when
        \* the upstream body does not decode
        transcoded == IF o.err \/ non2xx \/ rq.stream THEN 1
                      ELSE IF o.good THEN 1 ELSE 0
    IN CASE rq.kind = "chat" /\ type = "openai" ->
              \* the not-ok exit publishes and, on the last attempt, falls
              \* through to the copy of the response, which publishes again
              IF o.err THEN 1 ELSE IF ~ok /\ last THEN 2 ELSE 1
         [] rq.kind = "msg" /\ type = "anthropic" ->
              \* the not-ok exit does not publish
              IF o.err THEN 1 ELSE IF ~ok /\ ~last THEN 0 ELSE 1
         [] rq.kind \in {"chat", "msg"} -> transcoded
         [] rq.kind = "responses" -> 1
         [] OTHER -> 0

\* The upstream call of request r returns: a transport error, or the
\* response headers with their status.
Reply(r) ==
    LET rq == reqs[r]
    IN /\ rq.pc = "calling"
       /\ ~Forced(rq)
       /\ \E o \in Outcomes :
            /\ reqs' = [reqs EXCEPT ![r] = [rq EXCEPT !.pc = "replied",
                                                      !.err = o.err,
                                                      !.status = o.status]]
       /\ UNCHANGED <<now, store, cache, credState, poolStates, routeCache, lastEnd, cfgVars, sideVars>>

\* The handler consumes the response (the body decodes and the stream is
\* copied without error, or not) and runs to the end of the attempt.
Finish(r) ==
    LET rq == reqs[r]
    IN /\ rq.pc = "replied"
       /\ \E good \in BOOLEAN, latMs \in LatenciesMs :
            /\ rq.err => ~good
            /\ LET o == [err |-> rq.err, status |-> rq.status, good |-> good]
               IN Carry(r, ReplyPlan(rq, o), publishes(rq, o), latMs,
                        rq.conv \/ Transcodes(rq))
       /\ UNCHANGED <<now, store, cache, poolStates, lastEnd, cfgVars, sideVars>>

Tick ==
    /\ \E d \in TickSteps : now + d <= MaxTime /\ now' = now + d
    /\ UNCHANGED <<store, cache, credState, poolStates, routeCache, reqs, lastEnd, cfgVars, sideVars>>

\* A caller of getConfig that has not entered.
IdleGetter == [pc |-> "idle", at |-> 0, cfg |-> <<>>]

\* RecordRouteResult has not been called.
NoRec == [called |-> FALSE]

\* No transcoder is running.
NoStream == [dir |-> ""]

\* No bus is built.
NoBus == [ringCap |-> 0]

\* No attempt was made, no upstream request built, nothing converted, nothing
\* scored.
NoAttempt == [made |-> FALSE, n |-> 0]

NoRequest == [built |-> FALSE]

NoConversion == [done |-> FALSE]

NoScore == [called |-> FALSE]

moreIdle ==
    /\ att = NoAttempt
    /\ upreq = NoRequest
    /\ xlat = NoConversion
    /\ scored = NoScore

NoCall == [c |-> 0, ok |-> FALSE, status |-> 0, at |-> 0, before |-> ZeroCredState]

Init ==
    /\ now = 0
    /\ store \in Stores
    /\ cache = loadConfig(store)
    /\ credState = [c \in CredIds |-> ZeroCredState]
    /\ poolStates = [p \in PoolIds |-> 0]
    /\ routeCache = <<>>
    /\ reqs = [r \in ReqIds |-> NewReq]
    /\ lastEnd = NoCall
    /\ getters = [g \in GetterIds |-> IdleGetter]
    /\ cacheMu = 0
    /\ loadLog = <<>>
    /\ lastRec = NoRec
    /\ sse = NoStream
    /\ bus = NoBus
    /\ moreIdle

Next ==
    \/ \E r \in ReqIds : NewRequest(r)
    \/ \E r \in ReqIds : RetryPick(r)
    \/ \E r \in ReqIds : PickStart(r)
    \/ \E r \in ReqIds : EarlyExit(r)
    \/ \E r \in ReqIds : Reply(r)
    \/ \E r \in ReqIds : Finish(r)
    \/ Tick

Spec == Init /\ [][Next]_vars


(***************************************************************************)
(* EndRequest on its own: one credential is started and ended over and     *)
(* over with every kind of result; lastEnd keeps the arguments of the      *)
(* latest call and the credential's state before it.                       *)
(***************************************************************************)
EndStatuses == {0, 200, 302, 400, 401, 403, 429, 500}

StartOne ==
    /\ credState[1].inflight = 0
    /\ credState' = startRequest(credState, 1)
    /\ UNCHANGED <<now, store, cache, poolStates, routeCache, reqs, lastEnd, cfgVars, sideVars>>

EndOne ==
    /\ credState[1].inflight > 0
    /\ credState[1].failures < MaxFailures
    /\ credState[1].total < MaxEnds
    /\ \E ok \in BOOLEAN, status \in EndStatuses, latMs \in LatenciesMs :
         /\ credState' = EndRequest(credState, 1, ok, status, latMs, now)
         /\ lastEnd' = [c |-> 1, ok |-> ok, status |-> status, at |-> now,
                        before |-> credState[1]]
    /\ UNCHANGED <<now, store, cache, poolStates, routeCache, reqs, cfgVars, sideVars>>

InitEnd == Init /\ store = StoreFlat

NextEnd == StartOne \/ EndOne \/ Tick

SpecEnd == InitEnd /\ [][NextEnd]_vars

(***************************************************************************)
(* The snapshot loader on its own: callers of getConfig race with each     *)
(* other and with writes to the configuration store.  Time 0 is the zero   *)
(* time.Time, so the clock starts at 1.  Positions of a caller:            *)
(*   idle       not in getConfig                                           *)
(*   rlock      now is read; about to take the read lock                   *)
(*   wait       read lock released, snapshot found stale; about to Lock    *)
(*   loading    holds the write lock; loadConfig has stamped loadedAt and  *)
(*              read the providers                                         *)
(*   loading2   loadConfig has read the credentials                        *)
(*   ret_fast, ret_recheck, ret_load, ret_err   returned from the fast     *)
(*              path, from the second test, after a load, with an error    *)
(* loadLog lists the runs of loadConfig in the order they returned: the    *)
(* loadedAt each stamped, whether it failed, and the snapshot it built.    *)
(***************************************************************************)
CfgStores == {StoreFlat, StorePriority}

ZeroConfig ==
    [loadedAt |-> 0, providers |-> <<>>, credentials |-> <<>>,
     providerCreds |-> <<>>, pools |-> <<>>, poolByClientKey |-> <<>>]

\* The test of the fast path, under the read lock.
cacheFresh(c, t) == c.loadedAt # 0 /\ t - c.loadedAt <= cacheTTL

\* The second test without the comparison: every caller reloads.
stillFresh_skipped(c, t) == FALSE

\* The second test, under the write lock.
stillFresh(c, t) == c.loadedAt # 0 /\ t - c.loadedAt <= cacheTTL

\* An installation that leaves the pools of the previous snapshot in place.
installConfig_keepsPools(old, c) ==
    [c EXCEPT !.pools = old.pools, !.poolByClientKey = old.poolByClientKey]

\* r.cache = c
installConfig(old, c) == c

\* The caller has been handed a snapshot.
HasSnapshot(g) == getters[g].pc \in {"ret_fast", "ret_recheck", "ret_load"}

GetConfig(g) ==
    /\ getters[g].pc = "idle"
    /\ getters' = [getters EXCEPT ![g] = [pc |-> "rlock", at |-> now, cfg |-> <<>>]]
    /\ UNCHANGED <<now, store, cache, credState, poolStates, routeCache, reqs,
                   lastEnd, cacheMu, loadLog, sideVars>>

FastPath(g) ==
    /\ getters[g].pc = "rlock"
    /\ cacheMu = 0
    /\ getters' = [getters EXCEPT ![g] =
                     IF cacheFresh(cache, getters[g].at)
                     THEN [@ EXCEPT !.pc = "ret_fast", !.cfg = cache]
                     ELSE [@ EXCEPT !.pc = "wait"]]
    /\ UNCHANGED <<now, store, cache, credState, poolStates, routeCache, reqs,
                   lastEnd, cacheMu, loadLog, sideVars>>

\* Lock, the second test, and loadConfig up to its first query.
LockCheck(g) ==
    /\ getters[g].pc = "wait"
    /\ cacheMu = 0
    /\ IF stillFresh(cache, getters[g].at)
       THEN /\ getters' = [getters EXCEPT ![g] =
                             [@ EXCEPT !.pc = "ret_recheck", !.cfg = cache]]
            /\ UNCHANGED cacheMu
       ELSE /\ Len(loadLog) < MaxLoads
            /\ getters' = [getters EXCEPT ![g] =
                             [@ EXCEPT !.pc = "loading",
                                       !.cfg = [loadedAt |-> now,
                                                providers |-> loadProviders(store)]]]
            /\ cacheMu' = g
    /\ UNCHANGED <<now, store, cache, credState, poolStates, routeCache, reqs,
                   lastEnd, loadLog, sideVars>>

\* The second query of loadConfig.
LoadCredentials(g) ==
    /\ getters[g].pc = "loading"
    /\ getters' = [getters EXCEPT ![g] =
                     [@ EXCEPT !.pc = "loading2",
                               !.cfg = [credentials |-> loadCredentials(store)] @@ @]]
    /\ UNCHANGED <<now, store, cache, credState, poolStates, routeCache, reqs,
                   lastEnd, cacheMu, loadLog, sideVars>>

\* The third query; loadConfig returns, with an error or with the snapshot,
\* which is installed; the write lock is released.
LoadReturns(g) ==
    /\ getters[g].pc = "loading2"
    /\ cacheMu' = 0
    /\ \E err \in BOOLEAN :
         IF err
         THEN /\ getters' = [getters EXCEPT ![g] =
                               [@ EXCEPT !.pc = "ret_err", !.cfg = <<>>]]
              /\ loadLog' = Append(loadLog, [at |-> getters[g].cfg.loadedAt,
                                             err |-> TRUE, cfg |-> <<>>])
              /\ UNCHANGED cache
         ELSE LET c == [loadedAt |-> getters[g].cfg.loadedAt]
                       @@ buildConfig(getters[g].cfg.providers,
                                      getters[g].cfg.credentials, loadPools(store))
              IN /\ cache' = installConfig(cache, c)
                 /\ loadLog' = Append(loadLog, [at |-> c.loadedAt,
                                                err |-> FALSE, cfg |-> c])
                 /\ getters' = [getters EXCEPT ![g] =
                                  [@ EXCEPT !.pc = "ret_load", !.cfg = c]]
    /\ UNCHANGED <<now, store, credState, poolStates, routeCache, reqs, lastEnd,
                   sideVars>>

\* The caller is done with the snapshot it was given.
Drop(g) ==
    /\ getters[g].pc \in {"ret_fast", "ret_recheck", "ret_load", "ret_err"}
    /\ getters' = [getters EXCEPT ![g] = IdleGetter]
    /\ UNCHANGED <<now, store, cache, credState, poolStates, routeCache, reqs,
                   lastEnd, cacheMu, loadLog, sideVars>>

\* The administrator changes the configuration store.
AdminWrite ==
    /\ \E st \in CfgStores : st # store /\ store' = st
    /\ UNCHANGED <<now, cache, credState, poolStates, routeCache, reqs, lastEnd,
                   cfgVars, sideVars>>

TickCfg ==
    /\ \E d \in CfgTickSteps : now + d <= MaxCfgTime /\ now' = now + d
    /\ UNCHANGED <<store, cache, credState, poolStates, routeCache, reqs, lastEnd,
                   cfgVars, sideVars>>

InitCfg ==
    /\ now = 1
    /\ store \in CfgStores
    /\ cache = ZeroConfig
    /\ credState = [c \in CredIds |-> ZeroCredState]
    /\ poolStates = [p \in PoolIds |-> 0]
    /\ routeCache = <<>>
    /\ reqs = [r \in ReqIds |-> NewReq]
    /\ lastEnd = NoCall
    /\ getters = [g \in GetterIds |-> IdleGetter]
    /\ cacheMu = 0
    /\ loadLog = <<>>
    /\ lastRec = NoRec
    /\ sse = NoStream
    /\ bus = NoBus
    /\ moreIdle

NextCfg ==
    \/ \E g \in GetterIds : GetConfig(g)
    \/ \E g \in GetterIds : FastPath(g)
    \/ \E g \in GetterIds : LockCheck(g)
    \/ \E g \in GetterIds : LoadCredentials(g)
    \/ \E g \in GetterIds : LoadReturns(g)
    \/ \E g \in GetterIds : Drop(g)
    \/ AdminWrite
    \/ TickCfg

SpecCfg == InitCfg /\ [][NextCfg]_vars

(***************************************************************************)
(* RecordRouteResult on its own: it is called over and over with every     *)
(* kind of argument, from an empty stickiness cache; lastRec keeps the     *)
(* arguments of the latest call and the cache before it.                   *)
(***************************************************************************)
RecPools == {0, 1}
RecCreds == {0, 1, 2}
RecFacades == {FacadeOpenAI, FacadeAnthropic}
RecStatuses == {0, 200, 400, 401, 403, 429, 499, 500, 503}

RecordOne ==
    /\ \E poolID \in RecPools, facade \in RecFacades, model \in ReqModels,
          credentialID \in RecCreds, ok \in BOOLEAN, status \in RecStatuses :
         /\ routeCache' = RecordRouteResult(routeCache, poolID, facade, model,
                                            credentialID, ok, status, now)
         /\ lastRec' = [called |-> TRUE, poolID |-> poolID, facade |-> facade,
                        model |-> model, credentialID |-> credentialID,
                        ok |-> ok, status |-> status, before |-> routeCache]
    /\ UNCHANGED <<now, store, cache, credState, poolStates, reqs, lastEnd,
                   cfgVars, sse, bus, moreVars>>

InitRoute == Init /\ store = StoreFlat

NextRoute == RecordOne

SpecRoute == InitRoute /\ [][NextRoute]_vars

(***************************************************************************)
(* The SSE transcoder (package streamconv).  One run reads the upstream    *)
(* stream block by block; a block is what readSSEBlock and extractSSEData  *)
(* hand to the loop: end of file, a read error, or the data of one block.  *)
(* For the run, sse holds                                                  *)
(*   dir    "o2a" (OpenAIToAnthropic) or "a2o" (AnthropicToOpenAI)         *)
(*   pc     "run" in the loop, "done" returned nil, "failed" returned err  *)
(*   in     the blocks read so far                                         *)
(*   body   what was left of the upstream body before the last read        *)
(*   out    the events written so far; src is the number of the block      *)
(*          being handled when the event was written (0 before the loop)   *)
(* and the locals of the function.                                         *)
(***************************************************************************)
Blank(str) == str \in {"", " "}

\* No read yet.
NoBody == [lines |-> <<>>, tail |-> <<>>, endErr |-> ""]

Ev(ev, index, type, id, name, text) ==
    [ev |-> ev, index |-> index, type |-> type, id |-> id, name |-> name,
     text |-> text, src |-> 0]

\* A write that lands in front of what was written before.
emit_front(st, e) == [st EXCEPT !.out = <<[e EXCEPT !.src = Len(st.in)]>> \o @]

\* writeAnthropicEvent, writeOpenAIChunk: the event goes to the end of the
\* response.
emit(st, e) == [st EXCEPT !.out = Append(@, [e EXCEPT !.src = Len(st.in)])]

\* json.Unmarshal of the data failed and the loop returns the error.
skipBlock_abort(st) == [st EXCEPT !.pc = "failed"]

\* `continue`: the loop leaves the block (no data, or data that does not
\* decode) and goes on to the next read.
skipBlock(st) == st

\* ---- OpenAI to Anthropic ----
ToolCall(id, name, arguments) == [id |-> id, name |-> name, arguments |-> arguments]

\* A chunk whose choices[0] carries this delta and finish_reason.
Chunk(reasoning, content, tool_calls, finish_reason) ==
    [kind |-> "chunk", reasoning_content |-> reasoning, content |-> content,
     tool_calls |-> tool_calls, finish_reason |-> finish_reason]

OpenAIBlocks ==
    {[kind |-> "eof"], [kind |-> "error"], [kind |-> "done"], [kind |-> "badjson"]}
    \cup {Chunk("", "", <<>>, ""),
          Chunk("", "t", <<>>, ""),
          Chunk("r", "", <<>>, ""),
          Chunk("r", "t", <<>>, ""),
          Chunk("", "", <<ToolCall("a", "f", "")>>, ""),
          Chunk("", "", <<ToolCall("a", "", "x")>>, ""),
          Chunk("", "", <<ToolCall("", "", "x")>>, ""),
          Chunk("", "", <<ToolCall(" ", "f", "x")>>, ""),
          Chunk("", "", <<ToolCall("a", "f", "x"), ToolCall("b", "g", "y")>>, ""),
          Chunk("", "", <<>>, "stop"),
          Chunk("", "", <<>>, "length"),
          Chunk("", "", <<>>, "tool_calls"),
          Chunk("", "", <<>>, "content_filter"),
          Chunk("", "t", <<>>, "length")}

StartOpenAIToAnthropic ==
    emit([dir |-> "o2a", pc |-> "run", in |-> <<>>, out |-> <<>>,
          nextIndex |-> 0, openBlocks |-> {}, toolIndexByID |-> <<>>,
          finishReason |-> "", sentRole |-> FALSE, toolIDsByIndex |-> <<>>,
          body |-> NoBody],
         Ev("message_start", -1, "", "", "", ""))

\* A block opened without being recorded in openBlocks.
openBlock_unmarked(st, idx, type) ==
    [emit(st, Ev("content_block_start", idx, type, "", "", ""))
       EXCEPT !.nextIndex = IF @ <= idx THEN idx + 1 ELSE @]

\* Open block idx with a content_block_start, unless it is open.
openBlock(st, idx, type) ==
    IF idx \in st.openBlocks THEN st
    ELSE [emit(st, Ev("content_block_start", idx, type, "", "", ""))
            EXCEPT !.openBlocks = @ \cup {idx},
                   !.nextIndex = IF @ <= idx THEN idx + 1 ELSE @]

reasoningDelta(st, b) ==
    IF b.reasoning_content = "" THEN st
    ELSE emit(openBlock(st, 0, "thinking"),
              Ev("content_block_delta", 0, "thinking_delta", "", "",
                 b.reasoning_content))

contentDelta(st, b) ==
    IF b.content = "" THEN st
    ELSE LET idx == IF 0 \in st.openBlocks THEN 1 ELSE 0
         IN emit(openBlock(st, idx, "text"),
                 Ev("content_block_delta", idx, "text_delta", "", "", b.content))

RECURSIVE toolCallDeltas(_, _)
toolCallDeltas(st, tcs) ==
    IF tcs = <<>> THEN st
    ELSE LET tc == Head(tcs)
             known == tc.id \in DOMAIN st.toolIndexByID
             idx == IF known THEN st.toolIndexByID[tc.id] ELSE st.nextIndex
             s1 == IF known THEN st
                   ELSE [emit(st, Ev("content_block_start", idx, "tool_use",
                                     tc.id, tc.name, ""))
                           EXCEPT !.nextIndex = @ + 1,
                                  !.toolIndexByID = (tc.id :> idx) @@ @,
                                  !.openBlocks = @ \cup {idx}]
             s2 == IF tc.arguments = "" THEN s1
                   ELSE emit(s1, Ev("content_block_delta", idx, "input_json_delta",
                                    "", "", tc.arguments))
         IN toolCallDeltas(IF Blank(tc.id) THEN st ELSE s2, Tail(tcs))

\* The switch on finishReason, with every case sending "end_turn".
stopReasonOf_flat(finishReason) == "end_turn"

\* The switch on finishReason.
stopReasonOf(finishReason) ==
    CASE finishReason = "tool_calls" -> "tool_use"
      [] finishReason = "length" -> "max_tokens"
      [] OTHER -> "end_turn"

RECURSIVE blockStops(_, _)
blockStops(st, idx) ==
    IF idx >= st.nextIndex THEN st
    ELSE blockStops(IF idx \in st.openBlocks
                    THEN emit(st, Ev("content_block_stop", idx, "", "", "", ""))
                    ELSE st,
                    idx + 1)

\* After the loop: the stops, message_delta, message_stop; return nil.
endOpenAIToAnthropic(st) ==
    LET s1 == blockStops(st, 0)
        s2 == emit(s1, Ev("message_delta", -1, "", "", "",
                          stopReasonOf(st.finishReason)))
        s3 == emit(s2, Ev("message_stop", -1, "", "", "", ""))
    IN [s3 EXCEPT !.pc = "done"]

\* One iteration of the loop on the block just read (and, when the loop
\* ends with it, the rest of the function).
openAIBlock(st0, b) ==
    LET st == [st0 EXCEPT !.in = Append(@, b)]
    IN CASE b.kind = "error" -> [st EXCEPT !.pc = "failed"]
         [] b.kind \in {"eof", "done"} -> endOpenAIToAnthropic(st)
         [] b.kind \in {"nodata", "badjson"} -> skipBlock(st)
         [] OTHER ->
              LET s1 == toolCallDeltas(contentDelta(reasoningDelta(st, b), b),
                                       b.tool_calls)
              IN IF b.finish_reason # ""
                 THEN endOpenAIToAnthropic([s1 EXCEPT !.finishReason = b.finish_reason])
                 ELSE s1

\* ---- Anthropic to OpenAI ----
\* An event of the Anthropic stream that decodes: its type and the fields
\* the transcoder looks at.
Event(type, index, inner, id, name, text) ==
    [kind |-> "event", type |-> type, index |-> index, inner |-> inner,
     id |-> id, name |-> name, text |-> text]

AnthropicBlocks ==
    {[kind |-> "eof"], [kind |-> "error"], [kind |-> "badjson"]}
    \cup {Event("message_start", 0, "", "", "", ""),
          Event("content_block_start", 0, "thinking", "", "", ""),
          Event("content_block_start", 0, "text", "", "", ""),
          Event("content_block_start", 1, "tool_use", "a", "f", ""),
          Event("content_block_start", 1, "tool_use", " ", "f", ""),
          Event("content_block_delta", 0, "thinking_delta", "", "", "r"),
          Event("content_block_delta", 0, "text_delta", "", "", "t"),
          Event("content_block_delta", 0, "text_delta", "", "", ""),
          Event("content_block_delta", 1, "input_json_delta", "", "", "x"),
          Event("content_block_delta", 2, "input_json_delta", "", "", "y"),
          Event("content_block_stop", 0, "", "", "", ""),
          Event("message_delta", 0, "", "", "", "end_turn"),
          Event("message_delta", 0, "", "", "", "max_tokens"),
          Event("message_delta", 0, "", "", "", "tool_use"),
          Event("message_delta", 0, "", "", "", "refusal"),
          Event("message_delta", 0, "", "", "", ""),
          Event("message_stop", 0, "", "", "", "")}

StartAnthropicToOpenAI ==
    [dir |-> "a2o", pc |-> "run", in |-> <<>>, out |-> <<>>,
     nextIndex |-> 0, openBlocks |-> {}, toolIndexByID |-> <<>>,
     finishReason |-> "stop", sentRole |-> FALSE, toolIDsByIndex |-> <<>>,
     body |-> NoBody]

\* The role chunk, written with the first event that decodes.
roleChunk(st) ==
    IF st.sentRole THEN st
    ELSE [emit(st, Ev("chunk", 0, "role", "", "", "assistant"))
            EXCEPT !.sentRole = TRUE]

\* The switch on stop_reason.
finishReasonOf(sr) ==
    CASE sr \in {"end_turn", "stop_sequence"} -> "stop"
      [] sr = "max_tokens" -> "length"
      [] sr = "tool_use" -> "tool_calls"
      [] OTHER -> "stop"

contentBlockStart(st, e) ==
    CASE e.inner = "thinking" ->
           emit(st, Ev("chunk", 0, "reasoning_content", "", "", ""))
      [] e.inner = "tool_use" ->
           IF Blank(e.id) \/ Blank(e.name) THEN st
           ELSE emit([st EXCEPT !.toolIDsByIndex = (e.index :> e.id) @@ @],
                     Ev("chunk", e.index, "tool_calls", e.id, e.name, ""))
      [] OTHER -> st

contentBlockDelta(st, e) ==
    CASE e.inner = "thinking_delta" ->
           IF e.text = "" THEN st
           ELSE emit(st, Ev("chunk", 0, "reasoning_content", "", "", e.text))
      [] e.inner = "text_delta" ->
           IF e.text = "" THEN st
           ELSE emit(st, Ev("chunk", 0, "content", "", "", e.text))
      [] e.inner = "input_json_delta" ->
           LET toolID == IF e.index \in DOMAIN st.toolIDsByIndex
                         THEN st.toolIDsByIndex[e.index] ELSE ""
           IN IF Blank(toolID) \/ e.text = "" THEN st
              ELSE emit(st, Ev("chunk", e.index, "tool_calls", toolID, "", e.text))
      [] OTHER -> st

\* After the loop: the final chunk and [DONE]; return nil.
endAnthropicToOpenAI(st) ==
    LET s1 == emit(st, Ev("chunk", 0, "finish_reason", "", "", st.finishReason))
        s2 == emit(s1, Ev("[DONE]", -1, "", "", "", ""))
    IN [s2 EXCEPT !.pc = "done"]

\* One iteration of the loop on the block just read.
anthropicBlock(st0, b) ==
    LET st == [st0 EXCEPT !.in = Append(@, b)]
    IN CASE b.kind = "error" -> [st EXCEPT !.pc = "failed"]
         [] b.kind = "eof" -> endAnthropicToOpenAI(st)
         [] b.kind \in {"nodata", "badjson"} -> skipBlock(st)
         [] OTHER ->
              LET s1 == roleChunk(st)
              IN CASE b.type = "content_block_start" -> contentBlockStart(s1, b)
                   [] b.type = "content_block_delta" -> contentBlockDelta(s1, b)
                   [] b.type = "message_delta" ->
                        IF b.text = "" THEN s1
                        ELSE [s1 EXCEPT !.finishReason = finishReasonOf(b.text)]
                   [] OTHER -> s1

\* ---- the block reader ----
\* What is left of the upstream body when readSSEBlock is called: the lines
\* that end with "\n" (a data line with what its JSON decodes to, an event
\* line, or the blank line), the bytes after the last "\n" (<<>> if none)
\* and the error that ends the body (io.EOF or another).
Line(kind, payload) == [kind |-> kind, payload |-> payload]

BlankLine == Line("blank", [kind |-> "none"])

Body(lines, tail, endErr) == [lines |-> lines, tail |-> tail, endErr |-> endErr]

\* readSSEBlock with b the lines accumulated so far.  ReadString hands the
\* lines out one by one; when they run out it returns the tail together
\* with the error, and the tail is not added to the block.
RECURSIVE readSSEBlock(_, _)
readSSEBlock(r, b) ==
    IF r.lines = <<>>
    THEN IF r.endErr = "EOF" /\ b # <<>>
         THEN [block |-> b, err |-> "EOF"]
         ELSE [block |-> <<>>, err |-> r.endErr]
    ELSE IF Head(r.lines).kind = "blank"
         THEN [block |-> b, err |-> ""]
         ELSE readSSEBlock([r EXCEPT !.lines = Tail(@)], Append(b, Head(r.lines)))

IsDataLine(ln) == ln.kind = "data"

\* extractSSEData and the decoding of its result: no data line gives "",
\* one data line gives its payload, several are joined by "\n" into a text
\* that does not decode.
extractSSEData(block) ==
    LET dataLines == SelectSeq(block, IsDataLine)
    IN CASE dataLines = <<>> -> [kind |-> "nodata"]
         [] Len(dataLines) = 1 -> dataLines[1].payload
         [] OTHER -> [kind |-> "badjson"]

\* The head of both loops: io.EOF breaks, another error returns, and
\* otherwise the data of the block is looked at.
loopBlock(rd) ==
    CASE rd.err = "EOF" -> [kind |-> "eof"]
      [] rd.err # "" -> [kind |-> "error"]
      [] OTHER -> extractSSEData(rd.block)

\* The body as it stands before a read that yields b: a block closed by a
\* blank line, or the end of the body.
Closed(b) ==
    CASE b.kind = "eof" -> Body(<<>>, <<>>, "EOF")
      [] b.kind = "error" -> Body(<<>>, <<>>, "reset")
      [] b.kind = "nodata" -> Body(<<Line("event", b), BlankLine>>, <<>>, "EOF")
      [] OTHER -> Body(<<Line("event", [kind |-> "none"]), Line("data", b), BlankLine>>,
                       <<>>, "EOF")

\* The body ends with the block of b and no blank line: after the "\n" of
\* the data line, or inside the data line.
CutAfterLine(b) == Body(<<Line("data", b)>>, <<>>, "EOF")

CutInLine(b) == Body(<<>>, <<Line("data", b)>>, "EOF")

OpenAITails == {Chunk("", "t", <<>>, ""), Chunk("", "", <<>>, "length")}

OpenAIBodies ==
    {Closed(b) : b \in OpenAIBlocks \cup {[kind |-> "nodata"]}}
    \cup {CutAfterLine(b) : b \in OpenAITails}
    \cup {CutInLine(b) : b \in OpenAITails}

\* The upstream stream delivers its next block to OpenAIToAnthropic.
OpenAIToAnthropic ==
    /\ sse.dir = "o2a" /\ sse.pc = "run"
    /\ \E r \in OpenAIBodies :
         LET b == loopBlock(readSSEBlock(r, <<>>))
         IN /\ Len(sse.in) < MaxBlocks \/ b.kind \in {"eof", "error"}
            /\ sse' = [openAIBlock(sse, b) EXCEPT !.body = r]
    /\ UNCHANGED <<now, store, cache, credState, poolStates, routeCache, reqs,
                   lastEnd, cfgVars, lastRec, bus, moreVars>>

AnthropicTails ==
    {Event("content_block_delta", 0, "text_delta", "", "", "t"),
     Event("message_delta", 0, "", "", "", "max_tokens")}

AnthropicBodies ==
    {Closed(b) : b \in AnthropicBlocks \cup {[kind |-> "nodata"]}}
    \cup {CutAfterLine(b) : b \in AnthropicTails}
    \cup {CutInLine(b) : b \in AnthropicTails}

\* The upstream stream delivers its next block to AnthropicToOpenAI.
AnthropicToOpenAI ==
    /\ sse.dir = "a2o" /\ sse.pc = "run"
    /\ \E r \in AnthropicBodies :
         LET b == loopBlock(readSSEBlock(r, <<>>))
         IN /\ Len(sse.in) < MaxBlocks \/ b.kind \in {"eof", "error"}
            /\ sse' = [anthropicBlock(sse, b) EXCEPT !.body = r]
    /\ UNCHANGED <<now, store, cache, credState, poolStates, routeCache, reqs,
                   lastEnd, cfgVars, lastRec, bus, moreVars>>

InitSSE ==
    /\ now = 0
    /\ store = StoreFlat
    /\ cache = loadConfig(store)
    /\ credState = [c \in CredIds |-> ZeroCredState]
    /\ poolStates = [p \in PoolIds |-> 0]
    /\ routeCache = <<>>
    /\ reqs = [r \in ReqIds |-> NewReq]
    /\ lastEnd = NoCall
    /\ getters = [g \in GetterIds |-> IdleGetter]
    /\ cacheMu = 0
    /\ loadLog = <<>>
    /\ lastRec = NoRec
    /\ sse \in {StartOpenAIToAnthropic, StartAnthropicToOpenAI}
    /\ bus = NoBus
    /\ moreIdle

NextSSE == OpenAIToAnthropic \/ AnthropicToOpenAI

SpecSSE == InitSSE /\ [][NextSSE]_vars

(***************************************************************************)
(* The selection on its own: a request's first pick from a router whose    *)
(* configuration, credential states and rotation counter are drawn from    *)
(* small sets, with an empty stickiness cache.                             *)
(***************************************************************************)
\* Flat pool with the priority_failover strategy.
StoreFailover ==
    [providers |-> (1 :> ProvRow("openai", TRUE, NoMap)
                    @@ 2 :> ProvRow("anthropic", TRUE, NoMap)),
     credentials |-> (1 :> CredRow(1, 1, 2, TRUE, TRUE)
                      @@ 2 :> CredRow(2, 1, 0, TRUE, TRUE)),
     pools |-> (1 :> PoolRow(1, "k1", "priority_failover", <<>>, <<1, 2>>, NoMap))]

\* Tiered pool: a priority tier reserved to model "x", then a priority tier
\* for every model with two items.
StoreTiered ==
    [providers |-> (1 :> ProvRow("anthropic", TRUE, NoMap)
                    @@ 2 :> ProvRow("openai", TRUE, NoMap)),
     credentials |-> (1 :> CredRow(1, 1, 0, TRUE, TRUE)
                      @@ 2 :> CredRow(2, 1, 2, TRUE, TRUE)),
     pools |-> (1 :> PoolRow(1, "k1", "weighted_rr",
                             <<Tier("priority", <<<<" ", "X">>>>, <<TierItem(1, 1)>>),
                               Tier("priority", <<>>, <<TierItem(2, 1), TierItem(1, 1)>>)>>,
                             <<>>, NoMap))]

PickStores == {StoreFlatOther, StoreFailover, StorePriority, StoreTiered, StoreWeighted}

\* States of one credential: never used, one or two requests in flight,
\* circuit open.
PickCredStates ==
    {ZeroCredState,
     [ZeroCredState EXCEPT !.present = TRUE, !.inflight = 1],
     [ZeroCredState EXCEPT !.present = TRUE, !.inflight = 2],
     [ZeroCredState EXCEPT !.present = TRUE, !.failures = 1, !.openUntil = 30]}

PickCounters == {0, 1}

InitPick ==
    /\ now = 0
    /\ store \in PickStores
    /\ cache = loadConfig(store)
    /\ credState \in [CredIds -> PickCredStates]
    /\ poolStates \in [PoolIds -> PickCounters]
    /\ routeCache = <<>>
    /\ reqs = [r \in ReqIds |-> NewReq]
    /\ lastEnd = NoCall
    /\ getters = [g \in GetterIds |-> IdleGetter]
    /\ cacheMu = 0
    /\ loadLog = <<>>
    /\ lastRec = NoRec
    /\ sse = NoStream
    /\ bus = NoBus
    /\ moreIdle

NextPick == \E r \in ReqIds : NewRequest(r)

SpecPick == InitPick /\ [][NextPick]_vars

(***************************************************************************)
(* The log bus (package logbus).  Publish and the two critical sections of *)
(* ServeSSE run under b.mu and hold nothing that waits, so each is one     *)
(* step.  bus holds                                                        *)
(*   ringCap, ring, subs   the fields of Bus; subs is the set of the       *)
(*                         subscribers whose channel is in the map         *)
(*   ch          the events queued in each subscriber's channel            *)
(*   pc          each ServeSSE call: "idle" not started, "flush" about to  *)
(*               write its snapshot, "loop" in the select loop, "gone"     *)
(*               returned                                                  *)
(*   snapshot    the local of that name                                    *)
(*   written     what the call has written to its response                 *)
(*   published   every event handed to Publish, in order                   *)
(*   since, until   the number of events published when the subscriber     *)
(*               was added to subs and when it was removed                 *)
(*   dropped     the RequestIDs of the events Publish could not enqueue    *)
(*   closed      the subscribers whose channel was closed                  *)
(*   panicked    Publish has sent on a closed channel                      *)
(*   lateSends   the RequestIDs of the events Publish enqueued somewhere   *)
(*               while some channel was closed                             *)
(* A subscriber channel holds MaxQueue events (64 in the code).            *)
(***************************************************************************)
RingCaps == {0, 2}

\* New: a capacity that is not positive becomes the default.
New(ringCap) ==
    [ringCap |-> IF ringCap <= 0 THEN defaultRingCap ELSE ringCap,
     ring |-> <<>>,
     subs |-> {},
     ch |-> [s \in SubIds |-> <<>>],
     pc |-> [s \in SubIds |-> "idle"],
     snapshot |-> [s \in SubIds |-> <<>>],
     written |-> [s \in SubIds |-> <<>>],
     published |-> <<>>,
     since |-> [s \in SubIds |-> 0],
     until |-> [s \in SubIds |-> 0],
     dropped |-> [s \in SubIds |-> {}],
     closed |-> {},
     panicked |-> FALSE,
     lateSends |-> {}]

\* The ring with the event appended whether or not it is full.
ringPush_unbounded(ring, ringCap, ev) == Append(ring, ev)

\* Publish, the ring: append while there is room, else shift left by one
\* and put the event in the last place.
ringPush(ring, ringCap, ev) ==
    IF Len(ring) < ringCap THEN Append(ring, ev)
    ELSE [i \in 1..Len(ring) |-> IF i < Len(ring) THEN ring[i + 1] ELSE ev]

\* `case ch <- ev` can run: the channel has room.
sendReady(q) == Len(q) < MaxQueue

\* The select without its default case.
selectCanRun_noDefault(q) == sendReady(q)

\* select { case ch <- ev: default: } can run: the send when the channel has
\* room, the default when it has not.
selectCanRun(q) == sendReady(q) \/ ~sendReady(q)

\* A send that makes room by discarding the oldest queued event.
trySend_dropOldest(q, ev) ==
    IF sendReady(q) THEN Append(q, ev) ELSE Append(Tail(q), ev)

\* What the select leaves in the channel.
trySend(q, ev) == IF sendReady(q) THEN Append(q, ev) ELSE q

\* A snapshot that misses the latest event of the ring.
copyRing_stale(ring) == IF ring = <<>> THEN ring ELSE SubSeq(ring, 1, Len(ring) - 1)

\* append([]Event(nil), b.ring...)
copyRing(ring) == ring

\* The deferred function that keeps the channel in the map.
removeSub_keeps(subs, s) == subs

\* delete(b.subs, ch)
removeSub(subs, s) == subs \ {s}

\* A request handler publishes the event of a request.
Publish ==
    /\ bus.ringCap > 0
    /\ Len(bus.published) < MaxPublish
    /\ \A s \in bus.subs : selectCanRun(bus.ch[s])
    /\ LET ev == [RequestID |-> Len(bus.published) + 1]
       IN bus' = [bus EXCEPT
                    !.ring = ringPush(@, bus.ringCap, ev),
                    !.ch = [s \in SubIds |->
                              IF s \in bus.subs THEN trySend(bus.ch[s], ev)
                              ELSE bus.ch[s]],
                    !.published = Append(@, ev),
                    !.dropped = [s \in SubIds |->
                                   IF s \in bus.subs /\ ~sendReady(bus.ch[s])
                                   THEN bus.dropped[s] \cup {ev.RequestID}
                                   ELSE bus.dropped[s]],
                    !.panicked = @ \/ (bus.subs \cap bus.closed # {}),
                    !.lateSends = IF /\ bus.closed # {}
                                     /\ \E s \in bus.subs : sendReady(bus.ch[s])
                                  THEN @ \cup {ev.RequestID} ELSE @]
    /\ UNCHANGED <<now, store, cache, credState, poolStates, routeCache, reqs,
                   lastEnd, cfgVars, lastRec, sse, moreVars>>

\* ServeSSE, first critical section: the channel goes into subs and the
\* ring is copied.
Subscribe(s) ==
    /\ bus.ringCap > 0
    /\ bus.pc[s] = "idle"
    /\ bus' = [bus EXCEPT !.subs = @ \cup {s},
                          !.snapshot[s] = copyRing(bus.ring),
                          !.since[s] = Len(bus.published),
                          !.pc[s] = "flush"]
    /\ UNCHANGED <<now, store, cache, credState, poolStates, routeCache, reqs,
                   lastEnd, cfgVars, lastRec, sse, moreVars>>

\* ServeSSE writes the snapshot.
Flush(s) ==
    /\ bus.ringCap > 0
    /\ bus.pc[s] = "flush"
    /\ bus' = [bus EXCEPT !.written[s] = @ \o bus.snapshot[s],
                          !.pc[s] = "loop"]
    /\ UNCHANGED <<now, store, cache, credState, poolStates, routeCache, reqs,
                   lastEnd, cfgVars, lastRec, sse, moreVars>>

\* ServeSSE, `case ev := <-ch`: the event is written.
Receive(s) ==
    /\ bus.ringCap > 0
    /\ bus.pc[s] = "loop"
    /\ bus.ch[s] # <<>>
    /\ bus' = [bus EXCEPT !.written[s] = Append(@, Head(bus.ch[s])),
                          !.ch[s] = Tail(@)]
    /\ UNCHANGED <<now, store, cache, credState, poolStates, routeCache, reqs,
                   lastEnd, cfgVars, lastRec, sse, moreVars>>

\* ServeSSE, `case <-notify`: the call returns, and the deferred function
\* takes the channel out of subs under the lock.
Disconnect(s) ==
    /\ bus.ringCap > 0
    /\ bus.pc[s] = "loop"
    /\ bus' = [bus EXCEPT !.subs = removeSub(@, s),
                          !.until[s] = Len(bus.published),
                          !.pc[s] = "gone"]
    /\ UNCHANGED <<now, store, cache, credState, poolStates, routeCache, reqs,
                   lastEnd, cfgVars, lastRec, sse, moreVars>>

\* The deferred function of ServeSSE, after b.mu.Unlock(): close(ch).
Close(s) ==
    /\ bus.ringCap > 0
    /\ bus.pc[s] = "gone"
    /\ s \notin bus.closed
    /\ bus' = [bus EXCEPT !.closed = @ \cup {s}]
    /\ UNCHANGED <<now, store, cache, credState, poolStates, routeCache, reqs,
                   lastEnd, cfgVars, lastRec, sse, moreVars>>

InitBus ==
    /\ now = 0
    /\ store = StoreFlat
    /\ cache = loadConfig(store)
    /\ credState = [c \in CredIds |-> ZeroCredState]
    /\ poolStates = [p \in PoolIds |-> 0]
    /\ routeCache = <<>>
    /\ reqs = [r \in ReqIds |-> NewReq]
    /\ lastEnd = NoCall
    /\ getters = [g \in GetterIds |-> IdleGetter]
    /\ cacheMu = 0
    /\ loadLog = <<>>
    /\ lastRec = NoRec
    /\ sse = NoStream
    /\ \E ringCap \in RingCaps : bus = New(ringCap)
    /\ moreIdle

NextBus ==
    \/ Publish
    \/ \E s \in SubIds : Subscribe(s)
    \/ \E s \in SubIds : Flush(s)
    \/ \E s \in SubIds : Receive(s)
    \/ \E s \in SubIds : Disconnect(s)
    \/ \E s \in SubIds : Close(s)

SpecBus == InitBus /\ [][NextBus]_vars

(***************************************************************************)
(* One iteration of the attempt loop of chatCompletions or createMessage   *)
(* on its own, from the end of pickUpstream (startRequest) to `continue`   *)
(* or `return`.  att keeps the handler's locals, the upstream outcome,     *)
(* what the handler wrote to the client, the order in which it used the    *)
(* upstream call's context, and the router's state before the iteration.   *)
(***************************************************************************)
mapStatusToOpenAI(upstreamStatus) ==
    IF upstreamStatus = StatusTooManyRequests THEN StatusTooManyRequests
    ELSE IF upstreamStatus = StatusUnauthorized \/ upstreamStatus = StatusForbidden
    THEN StatusUnauthorized
    ELSE IF upstreamStatus >= 400 /\ upstreamStatus < 500 THEN StatusBadRequest
    ELSE StatusBadGateway

mapTypeToOpenAI(upstreamStatus) ==
    IF upstreamStatus = StatusUnauthorized \/ upstreamStatus = StatusForbidden
    THEN "authentication_error"
    ELSE IF upstreamStatus = StatusTooManyRequests THEN "rate_limit_error"
    ELSE IF upstreamStatus >= 400 /\ upstreamStatus < 500 THEN "invalid_request_error"
    ELSE "server_error"

mapCodeToOpenAI(upstreamStatus) ==
    IF upstreamStatus = StatusTooManyRequests THEN "rate_limit"
    ELSE IF upstreamStatus = StatusUnauthorized \/ upstreamStatus = StatusForbidden
    THEN "unauthorized"
    ELSE IF upstreamStatus >= 500 THEN "upstream_error"
    ELSE "bad_request"

mapStatusToAnthropic(upstreamStatus) ==
    IF upstreamStatus = StatusTooManyRequests THEN StatusTooManyRequests
    ELSE IF upstreamStatus = StatusUnauthorized \/ upstreamStatus = StatusForbidden
    THEN StatusUnauthorized
    ELSE IF upstreamStatus >= 400 /\ upstreamStatus < 500 THEN StatusBadRequest
    ELSE StatusBadGateway

mapTypeToAnthropic(upstreamStatus) ==
    IF upstreamStatus = StatusUnauthorized \/ upstreamStatus = StatusForbidden
    THEN "authentication_error"
    ELSE IF upstreamStatus = StatusTooManyRequests THEN "rate_limit_error"
    ELSE IF upstreamStatus >= 400 /\ upstreamStatus < 500 THEN "invalid_request_error"
    ELSE "api_error"

\* The upstream status, headers and body copied to the client as they are
\* (copyHeader, WriteHeader(resp.StatusCode), the body): no error object of
\* the gateway.
CopiedReply(status) == [status |-> status, type |-> "", code |-> ""]

\* WriteHeader(http.StatusOK) followed by the transcoded body or stream.
ConvertedReply == [status |-> StatusOK, type |-> "", code |-> ""]

\* What the handler has written to the client when the iteration of rq whose
\* upstream call ended as o is over; NoReply when it continues with the next
\* attempt.
answer(rq, o) ==
    LET chat == rq.kind = "chat"
        non2xx == o.status < 200 \/ o.status >= 300
    IN IF ReplyPlan(rq, o).retry THEN NoReply
       ELSE IF o.err
       THEN (IF chat THEN ErrorReply(StatusBadGateway, "server_error", "upstream_failed")
             ELSE ErrorReply(StatusBadGateway, "api_error", ""))
       ELSE IF SameDialect(rq.kind, rq.up.ProviderType) THEN CopiedReply(o.status)
       ELSE IF non2xx
       THEN (IF chat
             THEN ErrorReply(mapStatusToOpenAI(o.status), mapTypeToOpenAI(o.status),
                             mapCodeToOpenAI(o.status))
             ELSE ErrorReply(mapStatusToAnthropic(o.status),
                             mapTypeToAnthropic(o.status), ""))
       ELSE IF rq.stream THEN ConvertedReply
       ELSE IF ~o.good
       THEN (IF chat THEN ErrorReply(StatusBadGateway, "server_error", "bad_upstream")
             ELSE ErrorReply(StatusBadGateway, "api_error", ""))
       ELSE ConvertedReply

\* What the handler writes on an exit taken before any upstream call.
earlyAnswer(rq) ==
    LET chat == rq.kind = "chat"
    IN IF Forced(rq)
       THEN (IF chat THEN ErrorReply(StatusNotImplemented, "server_error", "not_implemented")
             ELSE ErrorReply(StatusNotImplemented, "api_error", ""))
       ELSE (IF chat
             THEN ErrorReply(StatusBadRequest, "invalid_request_error", "unsupported_request")
             ELSE ErrorReply(StatusBadRequest, "invalid_request_error", ""))

\* The uses of the upstream call and of its context (uctx, cancel), in the
\* order of the code: "call" returns the headers or an error, "read" is
\* io.ReadAll of the body, "stream" the copy or transcoding of the stream,
\* "close" is resp.Body.Close() where it is not deferred, "cancel" is
\* cancel().  createMessage calls cancel() on the line after the call.
steps(rq, o) ==
    LET type == rq.up.ProviderType
        non2xx == o.status < 200 \/ o.status >= 300
        body == IF rq.stream THEN "stream" ELSE "read"
    IN IF rq.kind = "chat"
       THEN IF o.err THEN <<"call", "cancel">>
            ELSE IF type = "gemini" THEN <<"call", "read", "close", "cancel">>
            ELSE IF type = "openai" /\ ReplyPlan(rq, o).retry
            THEN <<"call", "close", "cancel">>
            ELSE IF type = "anthropic" /\ non2xx THEN <<"call", "close", "cancel">>
            ELSE <<"call", body, "close", "cancel">>
       ELSE IF o.err THEN <<"call", "cancel">>
            ELSE IF type = "gemini" THEN <<"call", "cancel", "read">>
            ELSE IF type = "anthropic" /\ ReplyPlan(rq, o).retry
            THEN <<"call", "cancel">>
            ELSE IF type = "openai" /\ non2xx THEN <<"call", "cancel">>
            ELSE <<"call", "cancel", body>>

AttemptStores == {StoreFlat, StoreFlatOther}

\* The handler of a chat-completions or messages request for model m that
\* picked credential c runs one iteration of its loop.
AttemptOne ==
    /\ att.n < MaxTries
    /\ \E kind \in {"chat", "msg"}, stream \in BOOLEAN, c \in CredIds,
          attempt \in {0, 1}, conv \in BOOLEAN, o \in Outcomes,
          good \in BOOLEAN, latMs \in LatenciesMs :
         LET cred == cache.credentials[c]
             prov == IF cred.ProviderID \in DOMAIN cache.providers
                     THEN cache.providers[cred.ProviderID] ELSE ZeroProv
             rq == [NewReq EXCEPT
                      !.pc = "calling", !.kind = kind, !.stream = stream,
                      !.clientKey = "k1", !.model = Str_m, !.origModel = Str_m,
                      !.attempt = attempt, !.conv = conv, !.sel = c, !.selPool = 1,
                      !.up = [CredentialID |-> c, PoolID |-> 1,
                              ProviderID |-> cred.ProviderID,
                              ProviderType |-> prov.Type,
                              Model |-> Str_m]]
             early == Forced(rq) \/ (Transcodes(rq) /\ ~conv)
             out == [err |-> o.err, status |-> o.status, good |-> good]
             plan == IF early THEN exitPlan(<<Call(FALSE, 0)>>) ELSE ReplyPlan(rq, out)
         IN /\ c \in DOMAIN cache.credentials
            /\ attempt < maxAttempts(rq)
            /\ o.err => ~good
            /\ credState' = endAll(startRequest(credState, c), c, plan.ends, latMs, now)
            /\ routeCache' = recordAll(routeCache, rq, plan.recs, now)
            /\ att' = [made |-> TRUE, n |-> att.n + 1, rq |-> rq, early |-> early,
                       o |-> out, retry |-> plan.retry,
                       ends |-> plan.ends, recs |-> plan.recs,
                       reply |-> IF early THEN earlyAnswer(rq) ELSE answer(rq, out),
                       steps |-> IF early THEN <<>> ELSE steps(rq, out),
                       stateBefore |-> credState[c], cacheBefore |-> routeCache]
    /\ UNCHANGED <<now, store, cache, poolStates, reqs, lastEnd, cfgVars,
                   lastRec, sse, bus, upreq, xlat, scored>>

InitAttempt == Init /\ store \in AttemptStores

NextAttempt == AttemptOne

SpecAttempt == InitAttempt /\ [][NextAttempt]_vars

(***************************************************************************)
(* The provider clients (packages openai, anthropic, gemini) on their own: *)
(* each builds the upstream request from the RoutedUpstream handed over by *)
(* the handler.  up.Headers are the provider's default_headers, copied by  *)
(* pickUpstream as they are.  A header map goes from canonical header name *)
(* to value; http.Header.Set canonicalises the name it is given.           *)
(***************************************************************************)
\* textproto.CanonicalMIMEHeaderKey on the header names used below.
CanonicalMIMEHeaderKey(k) ==
    CASE k \in {"authorization", "Authorization", "AUTHORIZATION"} -> "Authorization"
      [] k \in {"x-api-key", "X-Api-Key", "X-API-KEY"} -> "X-Api-Key"
      [] k \in {"x-goog-api-key", "X-Goog-Api-Key"} -> "X-Goog-Api-Key"
      [] k \in {"accept", "Accept"} -> "Accept"
      [] k \in {"anthropic-version", "Anthropic-Version"} -> "Anthropic-Version"
      [] k \in {"content-type", "Content-Type"} -> "Content-Type"
      [] OTHER -> k

\* strings.TrimSpace(s) == "" on the values used below.
BlankString(s) == s \in {"", " "}

\* req.Header.Set(k, v)
HeaderSet(h, k, v) ==
    [x \in DOMAIN h \cup {CanonicalMIMEHeaderKey(k)} |->
        IF x = CanonicalMIMEHeaderKey(k) THEN v ELSE h[x]]

\* for k, v := range up.Headers { ... req.Header.Set(k, v) }: entries with a
\* blank name or value are skipped.  No two names of a map used below have
\* the same canonical form, so the order of the range does not matter.
applyHeaders(h, headers) ==
    LET kept == {k \in DOMAIN headers : ~BlankString(k) /\ ~BlankString(headers[k])}
        named(x) == {k \in kept : CanonicalMIMEHeaderKey(k) = x}
    IN [x \in DOMAIN h \cup {CanonicalMIMEHeaderKey(k) : k \in kept} |->
          IF named(x) # {} THEN headers[CHOOSE k \in named(x) : TRUE] ELSE h[x]]

\* Content-Type and Accept of a POST; Accept alone of a GET.
jsonHeaders(post) ==
    IF post
    THEN ("Content-Type" :> "application/json" @@ "Accept" :> "application/json")
    ELSE ("Accept" :> "application/json")

\* openai.do (post) and openai.DoModels (~post).  The keys used below carry
\* no surrounding space, so strings.TrimSpace(up.APIKey) is up.APIKey.
do(up, post) ==
    LET h0 == jsonHeaders(post)
        h1 == IF ~BlankString(up.APIKey)
              THEN HeaderSet(h0, "Authorization", "Bearer " \o up.APIKey) ELSE h0
    IN applyHeaders(h1, up.Headers)

\* anthropic.DoMessages (post) and anthropic.DoModels (~post).
DoMessages(up, post) ==
    LET h0 == jsonHeaders(post)
        h1 == IF ~BlankString(up.APIVer)
              THEN HeaderSet(h0, "anthropic-version", up.APIVer) ELSE h0
        h2 == IF ~BlankString(up.APIKey)
              THEN HeaderSet(h1, "x-api-key", up.APIKey) ELSE h1
    IN applyHeaders(h2, up.Headers)

\* gemini.DoGenerateContent.
DoGenerateContent(up) ==
    LET h0 == jsonHeaders(TRUE)
        h1 == IF ~BlankString(up.APIKey)
              THEN HeaderSet(h0, "x-goog-api-key", up.APIKey) ELSE h0
    IN applyHeaders(h1, up.Headers)

\* Provider default_headers.
DefaultHeaders ==
    {<<>>,
     "X-Extra" :> "1",
     "X-Extra" :> " ",
     "accept" :> "text/event-stream",
     "anthropic-version" :> "2024-01-01",
     "Authorization" :> "Bearer other",
     "authorization" :> "Bearer other",
     "x-api-key" :> "other",
     "X-Goog-Api-Key" :> "other",
     ("X-Extra" :> "1" @@ "X-API-KEY" :> "other")}

APIKeys == {"", "sk-1"}

APIVers == {"", "2023-06-01"}

ProviderTypes == {"openai", "anthropic", "gemini"}

\* A provider client is called with a RoutedUpstream and builds its request.
BuildRequest ==
    /\ \E type \in ProviderTypes, key \in APIKeys, ver \in APIVers,
          headers \in DefaultHeaders, post \in BOOLEAN :
         LET up == [APIKey |-> key, APIVer |-> ver, Headers |-> headers]
         IN /\ type # "anthropic" => ver = ""
            /\ type = "gemini" => post
            /\ upreq' = [built |-> TRUE, type |-> type, post |-> post, up |-> up,
                         header |-> CASE type = "openai" -> do(up, post)
                                      [] type = "anthropic" -> DoMessages(up, post)
                                      [] OTHER -> DoGenerateContent(up)]
    /\ UNCHANGED <<now, store, cache, credState, poolStates, routeCache, reqs,
                   lastEnd, cfgVars, lastRec, sse, bus, att, xlat, scored>>

InitHeaders == Init /\ store = StoreFlat

NextHeaders == BuildRequest

SpecHeaders == InitHeaders /\ [][NextHeaders]_vars

(***************************************************************************)
(* credentialScore on its own.  The state of credential 1 is drawn from    *)
(* the states the registry can hold: never used, and used with some        *)
(* requests in flight, failures and latency.  inflight goes below zero in  *)
(* the running gateway, because a handler can call EndRequest twice for    *)
(* one startRequest (chatCompletions' not-ok exit on the last attempt).    *)
(***************************************************************************)
ScoreInflights == {0 - 2, 0 - 1, 0, 1, 2}
ScoreFailures == {0, 1, 2}
ScoreLatencies == {0, 2500, 5000}
ScoreWeights == {0, 1, 5}

ScoreStates ==
    {ZeroCredState}
    \cup {[present |-> TRUE, inflight |-> i, failures |-> f, successes |-> 1,
           total |-> 1 + f, ewmaLatency |-> l, openUntil |-> 0] :
            i \in ScoreInflights, f \in ScoreFailures, l \in ScoreLatencies}

\* The selection asks for the score of credential c with the weight of its
\* pool entry.
ScoreOne ==
    /\ \E c \in CredIds, baseWeight \in ScoreWeights :
         scored' = [called |-> TRUE, c |-> c, baseWeight |-> baseWeight,
                    score |-> credentialScore(credState, c, baseWeight)]
    /\ UNCHANGED <<now, store, cache, credState, poolStates, routeCache, reqs,
                   lastEnd, cfgVars, lastRec, sse, bus, att, upreq, xlat>>

InitScore ==
    /\ now = 0
    /\ store = StoreFlat
    /\ cache = loadConfig(store)
    /\ credState \in [CredIds -> ScoreStates]
    /\ credState[2] = ZeroCredState
    /\ poolStates = [p \in PoolIds |-> 0]
    /\ routeCache = <<>>
    /\ reqs = [r \in ReqIds |-> NewReq]
    /\ lastEnd = NoCall
    /\ getters = [g \in GetterIds |-> IdleGetter]
    /\ cacheMu = 0
    /\ loadLog = <<>>
    /\ lastRec = NoRec
    /\ sse = NoStream
    /\ bus = NoBus
    /\ moreIdle

NextScore == ScoreOne

SpecScore == InitScore /\ [][NextScore]_vars

(***************************************************************************)
(* Requests across a change of configuration: the handlers run as in Spec  *)
(* at one instant, and the administrator removes the first credential from *)
(* the pool's credential_ids.                                              *)
(***************************************************************************)
\* StoreFlat after credential 1 was taken out of the pool; the credential
\* and its provider stay as they are.
StoreShrunk ==
    [StoreFlat EXCEPT !.pools = (1 :> PoolRow(1, "k1", "weighted_rr", <<>>, <<2>>, NoMap))]

\* The administrator writes the pool row and the next getConfig past the TTL
\* replaces the snapshot by a load of the store.  A handler that is inside
\* pickUpstream keeps the snapshot it was given, so no request is between
\* pickCredentialFromPool and the end of pickUpstream.
Reconfigure ==
    /\ store = StoreFlat
    /\ \A r \in ReqIds : reqs[r].pc # "picked"
    /\ store' = StoreShrunk
    /\ cache' = loadConfig(store')
    /\ UNCHANGED <<now, credState, poolStates, routeCache, reqs, lastEnd, cfgVars,
                   sideVars>>

InitSticky == Init /\ store = StoreFlat

NextSticky ==
    \/ \E r \in ReqIds : NewRequest(r)
    \/ \E r \in ReqIds : RetryPick(r)
    \/ \E r \in ReqIds : PickStart(r)
    \/ \E r \in ReqIds : EarlyExit(r)
    \/ \E r \in ReqIds : Reply(r)
    \/ \E r \in ReqIds : Finish(r)
    \/ Reconfigure

SpecSticky == InitSticky /\ [][NextSticky]_vars

(***************************************************************************)
(* Request conversion between the Anthropic and the OpenAI dialect.  JSON  *)
(* strings are sequences of characters; a JSON object is a record; the     *)
(* OpenAI request produced by the first converter reaches the second one   *)
(* the way the wire delivers it, as arrays of objects.  A field that the   *)
(* Go map does not hold is the empty sequence here.  The inputs hold no    *)
(* image block, so hasNonText stays false and content is the joined text;  *)
(* tool_use.input, tools and tool_choice are carried along unchanged by    *)
(* the code and are left out of the records.                               *)
(***************************************************************************)
MaxMessages == 2

TextBlock(t) == [type |-> "text", text |-> t]
ThinkingBlock(t) == [type |-> "thinking", thinking |-> t]
ToolUseBlock(id, name) == [type |-> "tool_use", id |-> id, name |-> name]
ToolResultBlock(id, content) ==
    [type |-> "tool_result", tool_use_id |-> id, content |-> content, is_error |-> FALSE]

OpenAIMessage(role, content, reasoning, toolCalls, toolCallID) ==
    [role |-> role, content |-> content, reasoning_content |-> reasoning,
     tool_calls |-> toolCalls, tool_call_id |-> toolCallID]

\* json.Marshal of a system value given as a list of text blocks: the keys
\* of every object in alphabetical order.
RECURSIVE marshalBlocks(_)
marshalBlocks(blocks) ==
    IF blocks = <<>> THEN <<>>
    ELSE <<"{", "\"", "t", "e", "x", "t", "\"", ":", "\"">> \o Head(blocks).text
           \o <<"\"", ",", "\"", "t", "y", "p", "e", "\"", ":", "\"", "t", "e", "x", "t", "\"", "}">>
           \o (IF Len(blocks) > 1 THEN <<",">> ELSE <<>>)
           \o marshalBlocks(Tail(blocks))

\* The switch on ar.System at the head of AnthropicToOpenAIChatRequest.
systemText(system) ==
    CASE system.kind = "string" -> system.v
      [] system.kind = "nil" -> <<>>
      [] OTHER -> <<"[">> \o marshalBlocks(system.v) \o <<"]">>

\* stringifyJSONish and anthropicToolResultContentToText on a string.
stringifyJSONish(v) == v

anthropicToolResultContentToText(v) == v

\* anthropicContentToBlocks on a block list.
anthropicContentToBlocks(content) == content

\* strings.Join(textParts, "") and strings.Join(reasoningParts, "").
RECURSIVE joinParts(_, _)
joinParts(blocks, type) ==
    IF blocks = <<>> THEN <<>>
    ELSE (CASE Head(blocks).type # type -> <<>>
            [] type = "text" -> Head(blocks).text
            [] OTHER -> Head(blocks).thinking)
         \o joinParts(Tail(blocks), type)

blockError(blk) ==
    CASE blk.type = "tool_use" -> TrimSpace(blk.id) = <<>> \/ TrimSpace(blk.name) = <<>>
      [] blk.type = "tool_result" -> TrimSpace(blk.tool_use_id) = <<>>
      [] blk.type \in {"text", "thinking"} -> FALSE
      [] OTHER -> TRUE

toolCallOf(blk) ==
    [id |-> blk.id, type |-> "function", function |-> [name |-> blk.name]]

toolMessageOf(blk) ==
    LET text == anthropicToolResultContentToText(blk.content)
        content == IF TrimSpace(text) = <<>> THEN stringifyJSONish(blk.content) ELSE text
    IN OpenAIMessage("tool", content, <<>>, <<>>, blk.tool_use_id)

anthropicMessageToOpenAIMessages(m) ==
    LET blocks == anthropicContentToBlocks(m.content)
        uses == SelectSeq(blocks, LAMBDA b : b.type = "tool_use")
        results == SelectSeq(blocks, LAMBDA b : b.type = "tool_result")
        toolCalls == [i \in 1..Len(uses) |-> toolCallOf(uses[i])]
        toolMessages == [i \in 1..Len(results) |-> toolMessageOf(results[i])]
        content == joinParts(blocks, "text")
        failed == \/ m.role \notin {"user", "assistant"}
                  \/ \E i \in 1..Len(blocks) : blockError(blocks[i])
    IN IF failed THEN [err |-> TRUE, msgs |-> <<>>]
       ELSE [err |-> FALSE,
             msgs |-> <<IF m.role = "user"
                        THEN OpenAIMessage("user", content, <<>>, <<>>, <<>>)
                        ELSE OpenAIMessage("assistant", content,
                                           joinParts(blocks, "thinking"), toolCalls, <<>>)>>
                      \o toolMessages]

RECURSIVE convertMessages(_)
convertMessages(messages) ==
    IF messages = <<>> THEN [err |-> FALSE, msgs |-> <<>>]
    ELSE LET first == anthropicMessageToOpenAIMessages(Head(messages))
             rest == convertMessages(Tail(messages))
         IN [err |-> first.err \/ rest.err, msgs |-> first.msgs \o rest.msgs]

AnthropicToOpenAIChatRequest(ar) ==
    LET text == systemText(ar.system)
        sys == IF TrimSpace(text) # <<>>
               THEN <<OpenAIMessage("system", text, <<>>, <<>>, <<>>)>> ELSE <<>>
        conv == convertMessages(ar.messages)
    IN IF conv.err THEN [err |-> TRUE]
       ELSE [err |-> FALSE, req |-> [model |-> ar.model, messages |-> sys \o conv.msgs]]

openAIMessageContentToAnthropicBlocks(content) ==
    IF TrimSpace(content) = <<>> THEN <<>> ELSE <<TextBlock(content)>>

openAIToolCallsToAnthropicBlocks(v) ==
    [err |-> \E i \in 1..Len(v) :
                \/ TrimSpace(v[i].id) = <<>>
                \/ TrimSpace(v[i].function.name) = <<>>
                \/ v[i].type \notin {"", "function"},
     blocks |-> [i \in 1..Len(v) |-> ToolUseBlock(v[i].id, v[i].function.name)]]

\* strings.Join(sysParts, "\n")
RECURSIVE joinLines(_)
joinLines(parts) ==
    IF parts = <<>> THEN <<>>
    ELSE IF Len(parts) = 1 THEN Head(parts)
    ELSE Head(parts) \o <<"\n">> \o joinLines(Tail(parts))

\* What one message of the OpenAI request appends to out.
anthropicMessageOf(m) ==
    CASE m.role \in {"user", "assistant"} ->
           LET calls == openAIToolCallsToAnthropicBlocks(m.tool_calls)
           IN [err |-> calls.err,
               msg |-> [role |-> m.role,
                        content |-> openAIMessageContentToAnthropicBlocks(m.content)
                                      \o calls.blocks]]
      [] m.role = "tool" ->
           [err |-> TrimSpace(m.tool_call_id) = <<>>,
            msg |-> [role |-> "user",
                     content |-> <<ToolResultBlock(TrimSpace(m.tool_call_id),
                                                   stringifyJSONish(m.content))>>]]
      [] OTHER -> [err |-> TRUE, msg |-> [role |-> m.role, content |-> <<>>]]

OpenAIToAnthropicMessageRequest(or) ==
    LET systems == SelectSeq(or.messages, LAMBDA m : m.role = "system")
        others == SelectSeq(or.messages, LAMBDA m : m.role # "system")
        sysParts == [i \in 1..Len(systems) |-> stringifyJSONish(systems[i].content)]
        out == [i \in 1..Len(others) |-> anthropicMessageOf(others[i])]
        sys == TrimSpace(joinLines(sysParts))
    IN IF \E i \in 1..Len(out) : out[i].err THEN [err |-> TRUE]
       ELSE [err |-> FALSE,
             req |-> [model |-> or.model,
                      system |-> IF sys # <<>> THEN [kind |-> "string", v |-> sys]
                                 ELSE [kind |-> "nil"],
                      messages |-> [i \in 1..Len(out) |-> out[i].msg]]]

\* The requests that are converted.
T1 == <<"t", "1">>
T2 == <<"t", "2">>

Systems ==
    {[kind |-> "nil"],
     [kind |-> "string", v |-> <<"s">>],
     [kind |-> "string", v |-> <<"s", " ">>],
     [kind |-> "blocks", v |-> <<TextBlock(<<"s">>)>>]}

Contents ==
    {<<>>,
     <<TextBlock(<<"a">>)>>,
     <<TextBlock(<<"a">>), TextBlock(<<"b">>)>>,
     <<ThinkingBlock(<<"h">>), TextBlock(<<"a">>)>>,
     <<ToolUseBlock(T1, <<"f">>)>>,
     <<TextBlock(<<"a">>), ToolUseBlock(T1, <<"f">>)>>,
     <<ToolUseBlock(T1, <<"f">>), ToolUseBlock(T2, <<"g">>)>>,
     <<ToolUseBlock(<<>>, <<"f">>)>>,
     <<ToolResultBlock(T1, <<"r">>)>>,
     <<ToolResultBlock(T2, <<"r">>), TextBlock(<<"a">>)>>}

Roles == {"user", "assistant"}

AnthropicMessages == {[role |-> r, content |-> c] : r \in Roles, c \in Contents}

AnthropicRequests ==
    {[model |-> "m", system |-> s, messages |-> ms] :
        s \in Systems,
        ms \in UNION {[1..n -> AnthropicMessages] : n \in 0..MaxMessages}}

\* One request goes to the OpenAI dialect and, when that succeeded, back.
ConvertOne ==
    /\ ~xlat.done
    /\ \E ar \in AnthropicRequests :
         LET fwd == AnthropicToOpenAIChatRequest(ar)
         IN xlat' = [done |-> TRUE, ar |-> ar, fwd |-> fwd,
                     back |-> IF fwd.err THEN [err |-> TRUE]
                              ELSE OpenAIToAnthropicMessageRequest(fwd.req)]
    /\ UNCHANGED <<now, store, cache, credState, poolStates, routeCache, reqs,
                   lastEnd, cfgVars, lastRec, sse, bus, att, upreq, scored>>

InitConvert == Init /\ store = StoreFlat

NextConvert == ConvertOne

SpecConvert == InitConvert /\ [][NextConvert]_vars

(***************************************************************************)
(* Accounting of StartRequest and EndRequest.                              *)
(***************************************************************************)
\* Request r holds a credential on which startRequest was called.
Holding(r) == reqs[r].pc \in {"calling", "replied"}

\* The attempt of request r ends in this step.
AttemptEnds(r) == Holding(r) /\ reqs'[r].pc \in {"pick", "done"}

\* The number of EndRequest calls made on credential c in this step.
EndCalls(c) == credState'[c].total - credState[c].total

\* C1: in chatCompletions and createMessage, the step that ends an attempt
\* calls EndRequest on the attempt's credential exactly once, whichever path
\* the attempt takes (retry, early return, failed final attempt, stream).
C1_OneEndPerAttempt ==
    [][\A r \in ReqIds :
         (Loops(reqs[r]) /\ AttemptEnds(r))
            => EndCalls(reqs[r].up.CredentialID) = 1]_vars

\* C2: the inflight counter of every credential is never negative.
C2_InflightNonNegative ==
    \A c \in CredIds : credState[c].inflight >= 0

\* C3: in responses and in the Anthropic listModels, the step in which the
\* handler returns after a successful pick calls EndRequest exactly once and
\* gives back the inflight slot that startRequest took.
C3_ResponsesEndOnce ==
    [][\A r \in ReqIds :
         (~Loops(reqs[r]) /\ AttemptEnds(r))
            => /\ EndCalls(reqs[r].up.CredentialID) = 1
               /\ credState'[reqs[r].up.CredentialID].inflight
                    = credState[reqs[r].up.CredentialID].inflight - 1]_vars

\* C4: a credential with a concurrency limit L > 0 never has more than L
\* requests in flight.
C4_InflightWithinLimit ==
    \A c \in DOMAIN cache.credentials :
        cache.credentials[c].ConcurrencyLimit > 0
            => credState[c].inflight <= cache.credentials[c].ConcurrencyLimit

(***************************************************************************)
(* Stickiness.                                                             *)
(***************************************************************************)
\* Credential c is available at time t with credential states cs: enabled,
\* circuit not open, inflight below its limit.
Usable(cs, t, c) ==
    /\ c \in DOMAIN cache.credentials
    /\ cache.credentials[c].Enabled
    /\ ~(cs[c].openUntil > t)
    /\ \/ cache.credentials[c].ConcurrencyLimit = 0
       \/ cs[c].inflight < cache.credentials[c].ConcurrencyLimit

\* Request r makes a pick in this step and the pick returns a credential.
PickReturns(r) == reqs[r].pc \in {"new", "pick"} /\ reqs'[r].pc = "picked"

\* The stickiness key of the pick that request rq made.
PickKey(rq) == routeKey(rq.selPool, Facade(rq), PickModel(rq))

\* The stickiness key under which the handler of rq records its result.
RecordKey(rq) == routeKey(rq.up.PoolID, Facade(rq), rq.origModel)

Fresh(key) == key \in DOMAIN routeCache /\ now < routeCache[key].expiresAt

\* What a Pick with an empty exclude set returns in a given router state.
WouldPick(cs, rc, counters, t, facade, model) ==
    pickCredentialFromPool(cache, cs, rc, {}, t, cache.pools[1], facade, model,
                           counters[1])

PickInputs ==
    {<<f, m>> : f \in {FacadeOpenAI, FacadeAnthropic},
                m \in ReqModels \cup {Str_empty}}

\* C5 (as claimed): once RecordRouteResult(ok = true) has stored credential c
\* for a key, then for as long as that record is less than 90 s old and c
\* remains available, a Pick for the key with an empty exclude set returns c.
C5_StickyForNinetySeconds ==
    [][\A in \in PickInputs :
         LET key == routeKey(1, in[1], in[2])
             c == routeCache[key].credentialID
         IN (/\ DOMAIN cache.pools # {}
             /\ Fresh(key)
             /\ now' < routeCache[key].expiresAt
             /\ Usable(credState, now, c)
             /\ Usable(credState', now', c))
            => LET res == WouldPick(credState', routeCache', poolStates', now',
                                    in[1], in[2])
               IN res.found /\ res.cid = c]_vars

\* C5 (amended): RecordRouteResult(ok = true) for credential c stores c under
\* the key for 90 s, and a Pick with an empty exclude set returns the
\* credential that the key's entry currently holds whenever that entry is
\* unexpired and its credential is available, whatever the strategy or the
\* tiers would choose.
C5_PickFollowsEntry ==
    [][\A r \in ReqIds :
         /\ (PickReturns(r) /\ reqs'[r].exclude = {} /\ Fresh(PickKey(reqs'[r]))
               /\ Usable(credState, now, routeCache[PickKey(reqs'[r])].credentialID))
              => reqs'[r].sel = routeCache[PickKey(reqs'[r])].credentialID
         /\ (/\ reqs[r].pc = "replied" /\ reqs'[r].pc = "done"
             /\ SameDialect(reqs[r].kind, reqs[r].up.ProviderType)
             /\ ~reqs[r].stream /\ ~reqs[r].err /\ reqs[r].status = 200)
              => /\ RecordKey(reqs[r]) \in DOMAIN routeCache'
                 /\ routeCache'[RecordKey(reqs[r])]
                      = [credentialID |-> reqs[r].up.CredentialID,
                         expiresAt |-> now + 90]]_vars

\* A pick went to the credential of a fresh entry although the pool's own
\* strategy would have chosen another credential.
C5_Witness ==
    \E r \in ReqIds :
        /\ reqs[r].pc = "picked" /\ reqs[r].exclude = {}
        /\ Fresh(PickKey(reqs[r]))
        /\ routeCache[PickKey(reqs[r])].credentialID = reqs[r].sel
        /\ routeCache[PickKey(reqs[r])].expiresAt > 90
        /\ WouldPick(credState, <<>>, poolStates, now, Facade(reqs[r]),
                     PickModel(reqs[r])).cid # reqs[r].sel

\* The attempt of request r got an eviction-class result: transport error,
\* 401, 403, 429 or a status of 500 and above.
EvictionClass(rq) ==
    rq.pc = "replied" /\ (rq.err \/ rq.status \in {0, 401, 403, 429} \/ rq.status >= 500)

\* C6: when an attempt of chatCompletions or createMessage on credential A
\* ends in an eviction-class failure while the entry of the request's key
\* points to A, the entry no longer points to A once the attempt is over,
\* whether the attempt is retried or was the last one.
C6_FailureEvictsEntry ==
    [][\A r \in ReqIds :
         (/\ Loops(reqs[r]) /\ EvictionClass(reqs[r]) /\ AttemptEnds(r)
          /\ RecordKey(reqs[r]) \in DOMAIN routeCache
          /\ routeCache[RecordKey(reqs[r])].credentialID = reqs[r].up.CredentialID)
            => ~(/\ RecordKey(reqs[r]) \in DOMAIN routeCache'
                 /\ routeCache'[RecordKey(reqs[r])].credentialID
                      = reqs[r].up.CredentialID)]_vars

(***************************************************************************)
(* Retries.                                                                *)
(***************************************************************************)
\* Request r has picked a credential for its current attempt.
Attempting(r) == reqs[r].pc \in {"picked", "calling", "replied"}

\* C7: the credential picked for an attempt is never a member of the
\* request's exclude set, and the exclude set of a second attempt holds the
\* credential of the first, so a second attempt never uses it.
C7_PickAvoidsExcluded ==
    \A r \in ReqIds :
        Attempting(r)
            => /\ reqs[r].sel \notin reqs[r].exclude
               /\ reqs[r].attempt = 1 => reqs[r].exclude # {}

\* A second attempt picked another credential while the entry of its key
\* still pointed to the excluded one.
C7_Witness ==
    \E r \in ReqIds :
        /\ reqs[r].pc = "picked" /\ reqs[r].attempt = 1
        /\ reqs[r].exclude # {}
        /\ Fresh(PickKey(reqs[r]))
        /\ routeCache[PickKey(reqs[r])].credentialID \in reqs[r].exclude

\* The outcome of the upstream call is one that the handlers retry: a
\* transport error, 429, or a status of 500 and above.
Retryable(rq) == rq.err \/ rq.status = 429 \/ rq.status >= 500

C9_OpenUntilT ==
    [][\A c \in CredIds :
         (now < credState[c].openUntil /\ now' < credState[c].openUntil)
            => now' < credState'[c].openUntil]_vars

\* C9 (amended): a circuit open until T stays open before T through every
\* step that makes no EndRequest call on the credential, and no Pick returns
\* a credential whose circuit is open at the time of the Pick.
C9_PickBypassesOpen ==
    [][/\ \A c \in CredIds :
            (/\ now < credState[c].openUntil /\ now' < credState[c].openUntil
             /\ EndCalls(c) = 0)
               => now' < credState'[c].openUntil
       /\ \A r \in ReqIds :
            PickReturns(r) => ~(now < credState[reqs'[r].sel].openUntil)]_vars

\* A pick went elsewhere while the entry of its key pointed to a credential
\* whose circuit was open.
C9_Witness ==
    \E r \in ReqIds :
        /\ reqs[r].pc = "picked"
        /\ Fresh(PickKey(reqs[r]))
        /\ routeCache[PickKey(reqs[r])].credentialID # reqs[r].sel
        /\ now < credState[routeCache[PickKey(reqs[r])].credentialID].openUntil
        /\ credState[routeCache[PickKey(reqs[r])].credentialID].failures >= 1

(***************************************************************************)
(* Health bookkeeping of EndRequest.                                       *)
(***************************************************************************)
\* C10: EndRequest counts a result as a success exactly when ok holds and
\* the status is in 200..499 and is none of 401, 403, 429, and then resets
\* failures and openUntil to zero; any other result adds one to failures
\* and opens the circuit for 15 min after 401/403, for
\* min(5 * 2^min(failures, 6) s, 2 min) after 429, for
\* min(15 * 2^min(failures, 6) s, 5 min) after a status >= 500 or 0, and for
\* 30 s after another 4xx once failures has reached 3 (before that the
\* circuit is left as it was).
C10_EndRequestRule ==
    lastEnd.c # 0 =>
        LET before == lastEnd.before
            after == credState[lastEnd.c]
            status == lastEnd.status
            f == before.failures + 1
            Least(a, b) == IF a < b THEN a ELSE b
            success == /\ lastEnd.ok
                       /\ 200 <= status /\ status < 500
                       /\ status \notin {401, 403, 429}
        IN IF success
           THEN after.failures = 0 /\ after.openUntil = 0
           ELSE /\ after.failures = f
                /\ status \in {401, 403}
                     => after.openUntil = lastEnd.at + 15 * 60
                /\ status = 429
                     => after.openUntil
                          = lastEnd.at + Least(5 * 2^Least(f, 6), 2 * 60)
                /\ (status >= 500 \/ status = 0)
                     => after.openUntil
                          = lastEnd.at + Least(15 * 2^Least(f, 6), 5 * 60)
                /\ (400 <= status /\ status < 500 /\ status \notin {401, 403, 429})
                     => after.openUntil
                          = IF f >= 3 THEN lastEnd.at + 30 ELSE before.openUntil

\* The sixth consecutive failure was a 429 reported at a later time: the
\* backoff has reached its two-minute cap.
C10_Witness ==
    /\ lastEnd.c # 0 /\ lastEnd.status = 429 /\ lastEnd.at > 0
    /\ lastEnd.before.failures = 5
    /\ credState[lastEnd.c].failures = 6
    /\ credState[lastEnd.c].openUntil = lastEnd.at + 120

(***************************************************************************)
(* Snapshot membership of the picked credential.                           *)
(***************************************************************************)
\* C11: a credential returned by a pick is present and enabled in the
\* snapshot, and so is its provider, whichever path selected it.
C11_PickedProviderEnabled ==
    \A r \in ReqIds :
        reqs[r].pc = "picked"
            => /\ reqs[r].sel \in DOMAIN cache.credentials
               /\ cache.credentials[reqs[r].sel].Enabled
               /\ cache.credentials[reqs[r].sel].ProviderID \in DOMAIN cache.providers
               /\ cache.providers[cache.credentials[reqs[r].sel].ProviderID].Enabled

(***************************************************************************)
(* Coherence of the snapshot handed to a pick.                             *)
(***************************************************************************)
\* The snapshots built by the runs of loadConfig that succeeded.
Loaded == {loadLog[i].cfg : i \in {j \in DOMAIN loadLog : ~loadLog[j].err}}

\* C12: the snapshot a caller of getConfig is handed (the one a pick then
\* reads providers, credentials and pools from) is, whole, the snapshot built
\* by one run of loadConfig, however reloads and store writes interleave.
C12_SnapshotFromOneLoad ==
    \A g \in GetterIds : HasSnapshot(g) => getters[g].cfg \in Loaded

\* A caller still holds the snapshot of an earlier load, whose pools differ,
\* after a reload has replaced it.
C12_Witness ==
    \E g \in GetterIds :
        /\ HasSnapshot(g)
        /\ getters[g].cfg \in Loaded
        /\ cache \in Loaded
        /\ getters[g].cfg.pools # cache.pools
        /\ getters[g].cfg.loadedAt < cache.loadedAt

C14_OneEventPerRequest ==
    \A r \in ReqIds : reqs[r].pc = "done" => reqs[r].pubs = 1

(***************************************************************************)
(* Frame of RecordRouteResult on failure.                                  *)
(***************************************************************************)
\* C15: after RecordRouteResult with ok = false, the entry of the call's key
\* is gone exactly when the status is 0, 401, 403, 429 or at least 500 and
\* the entry pointed to the call's credential; in every other case, and for
\* every other key, the cache is as it was before the call.
C15_FailureFrame ==
    (lastRec.called /\ ~lastRec.ok) =>
        LET key == routeKey(lastRec.poolID, lastRec.facade, lastRec.model)
            before == lastRec.before
            evicts == /\ \/ lastRec.status \in {0, 401, 403, 429}
                         \/ lastRec.status >= 500
                      /\ key \in DOMAIN before
                      /\ before[key].credentialID = lastRec.credentialID
        IN /\ DOMAIN routeCache = IF evicts THEN (DOMAIN before) \ {key}
                                  ELSE DOMAIN before
           /\ \A k \in DOMAIN routeCache : routeCache[k] = before[k]

\* A failure has just evicted the entry of its key while the entry of another
\* key stayed.
C15_Witness ==
    /\ lastRec.called /\ ~lastRec.ok
    /\ routeKey(lastRec.poolID, lastRec.facade, lastRec.model) \in DOMAIN lastRec.before
    /\ routeKey(lastRec.poolID, lastRec.facade, lastRec.model) \notin DOMAIN routeCache
    /\ DOMAIN routeCache # {}

InDelta(kind, id, text) == [kind |-> kind, id |-> id, text |-> text]

\* The argument fragments of the tool calls of one OpenAI chunk.
RECURSIVE ToolArgs(_)
ToolArgs(tcs) ==
    IF tcs = <<>> THEN <<>>
    ELSE (IF Head(tcs).arguments = "" THEN <<>>
          ELSE <<InDelta("json", Head(tcs).id, Head(tcs).arguments)>>)
         \o ToolArgs(Tail(tcs))

\* The deltas with a payload that one input block carries.
BlockDeltas(b) ==
    CASE b.kind = "chunk" ->
           (IF b.reasoning_content = "" THEN <<>>
            ELSE <<InDelta("thinking", "", b.reasoning_content)>>)
           \o (IF b.content = "" THEN <<>> ELSE <<InDelta("text", "", b.content)>>)
           \o ToolArgs(b.tool_calls)
      [] b.kind = "event" /\ b.type = "content_block_delta" /\ b.text # "" ->
           <<InDelta(CASE b.inner = "thinking_delta" -> "thinking"
                       [] b.inner = "text_delta" -> "text"
                       [] OTHER -> "json", "", b.text)>>
      [] OTHER -> <<>>

RECURSIVE InDeltas(_)
InDeltas(in) ==
    IF in = <<>> THEN <<>> ELSE BlockDeltas(Head(in)) \o InDeltas(Tail(in))

IsOutDelta(e) ==
    \/ e.ev = "content_block_delta"
    \/ e.ev = "chunk" /\ e.type \in {"reasoning_content", "content", "tool_calls"}
                      /\ e.text # ""

OutKind(e) ==
    CASE e.type \in {"thinking_delta", "reasoning_content"} -> "thinking"
      [] e.type \in {"text_delta", "content"} -> "text"
      [] OTHER -> "json"

OutDeltas(out) == SelectSeq(out, IsOutDelta)

\* C17: in both directions the deltas written are, one for one and in order,
\* the deltas read, with the same kind and payload; and in OpenAI to
\* Anthropic the input_json_delta of a tool call's arguments carries the index
\* of the block started for that tool call.
C17_DeltasOneToOne ==
    sse.dir # "" =>
        LET ins == InDeltas(sse.in)
            outs == OutDeltas(sse.out)
        IN /\ Len(outs) = Len(ins)
           /\ \A k \in DOMAIN outs :
                /\ OutKind(outs[k]) = ins[k].kind
                /\ outs[k].text = ins[k].text
                /\ (sse.dir = "o2a" /\ ins[k].kind = "json")
                     => \E i \in DOMAIN sse.out :
                          /\ sse.out[i].ev = "content_block_start"
                          /\ sse.out[i].id = ins[k].id
                          /\ sse.out[i].index = outs[k].index

(***************************************************************************)
(* SSE transcoding: the terminal sequence.                                 *)
(***************************************************************************)
IsTerminal(e) ==
    \/ e.ev \in {"message_delta", "message_stop", "[DONE]"}
    \/ e.ev = "chunk" /\ e.type = "finish_reason"

\* The stop_reason of the last message_delta read that carries one, or "".
RECURSIVE LastStopReason(_)
LastStopReason(in) ==
    IF in = <<>> THEN ""
    ELSE LET b == in[Len(in)]
         IN IF b.kind = "event" /\ b.type = "message_delta" /\ b.text # ""
            THEN b.text
            ELSE LastStopReason(SubSeq(in, 1, Len(in) - 1))

\* The finish_reason the OpenAI stream ended with, or "".
LastFinishReason(in) ==
    IF in # <<>> /\ in[Len(in)].kind = "chunk" THEN in[Len(in)].finish_reason ELSE ""

\* The table of stop reasons, Anthropic stop_reason against OpenAI
\* finish_reason; a missing stop_reason goes with "stop".
ReasonsAgree(stop_reason, finish_reason) ==
    CASE stop_reason \in {"end_turn", "stop_sequence", ""} -> finish_reason \in {"stop", ""}
      [] stop_reason = "max_tokens" -> finish_reason = "length"
      [] stop_reason = "tool_use" -> finish_reason = "tool_calls"
      [] OTHER -> TRUE

IsRoleChunk(e) == e.ev = "chunk" /\ e.type = "role" /\ e.text = "assistant"

\* C19: whatever the input, what AnthropicToOpenAI has written begins with
\* the chunk whose delta.role is "assistant", and holds no second one.
C19_RoleChunkFirst ==
    (sse.dir = "a2o" /\ sse.out # <<>>) =>
        /\ IsRoleChunk(sse.out[1])
        /\ \A i \in DOMAIN sse.out : IsRoleChunk(sse.out[i]) => i = 1

(***************************************************************************)
(* SSE transcoding: blocks of the Anthropic output.                        *)
(***************************************************************************)
Starts(out, idx) ==
    {i \in DOMAIN out : out[i].ev = "content_block_start" /\ out[i].index = idx}

Stops(out, idx) ==
    {i \in DOMAIN out : out[i].ev = "content_block_stop" /\ out[i].index = idx}

OutIndexes(out) == {out[i].index : i \in DOMAIN out} \ {-1}

ThinkingOpenedBefore(out, i) ==
    \E k \in 1..(i - 1) :
        out[k].ev = "content_block_start" /\ out[k].type = "thinking"

\* C21: in the output of OpenAIToAnthropic every thinking delta is on index
\* 0; every text delta is on index 1 when a thinking block was started before
\* it and on index 0 otherwise; and every tool_use block starts on an index
\* that no earlier event of the output carries and that is higher than the
\* index of every block started before it.
C21_BlockIndexes ==
    sse.dir = "o2a" =>
        LET out == sse.out
        IN \A i \in DOMAIN out :
             /\ (out[i].ev = "content_block_delta" /\ out[i].type = "thinking_delta")
                  => out[i].index = 0
             /\ (out[i].ev = "content_block_delta" /\ out[i].type = "text_delta")
                  => out[i].index = (IF ThinkingOpenedBefore(out, i) THEN 1 ELSE 0)
             /\ (out[i].ev = "content_block_start" /\ out[i].type = "tool_use")
                  => \A k \in 1..(i - 1) : out[k].index < out[i].index

(***************************************************************************)
(* SSE transcoding: the last block of a body.                              *)
(***************************************************************************)
\* The body ends with a block that no blank line closes.
EndsUnclosed(r) ==
    /\ r.endErr = "EOF"
    /\ r.lines \o r.tail # <<>>
    /\ \A i \in DOMAIN r.lines : r.lines[i].kind # "blank"

Translate(st, b) == IF st.dir = "o2a" THEN openAIBlock(st, b) ELSE anthropicBlock(st, b)

\* What was written, without the bookkeeping of the block it came from.
Written(out) == [i \in DOMAIN out |-> [out[i] EXCEPT !.src = 0]]

\* C22: when the body ends with a block that end of input closes instead of
\* a blank line, readSSEBlock returns that block, and the run has written
\* what it writes for the same block closed by a blank line and followed by
\* end of input; in both directions.
C22_FinalBlockTranslated ==
    [][(sse.dir # "" /\ sse.pc = "run" /\ sse'.pc # "run" /\ EndsUnclosed(sse'.body))
         => LET block == sse'.body.lines \o sse'.body.tail
                st == Translate(sse, extractSSEData(block))
                end == IF st.pc = "run" THEN Translate(st, [kind |-> "eof"]) ELSE st
            IN /\ readSSEBlock(sse'.body, <<>>).block = block
               /\ Written(sse'.out) = Written(end.out)]_vars

(***************************************************************************)
(* SSE transcoding: data that does not decode.                             *)
(***************************************************************************)
Decodes(b) == b.kind # "badjson"

\* The run of the transcoder of direction dir over the blocks of in.
RECURSIVE RunOver(_, _)
RunOver(st, in) ==
    IF in = <<>> \/ st.pc # "run" THEN st
    ELSE RunOver(Translate(st, Head(in)), Tail(in))

StartOf(dir) == IF dir = "o2a" THEN StartOpenAIToAnthropic ELSE StartAnthropicToOpenAI

\* C23: in both directions a block whose data does not decode as JSON is
\* skipped and the run goes on: what the run has written, and whether it has
\* ended, is what the same run writes over the input with those blocks taken
\* out; and a run that has ended after such a block has written its terminal
\* sequence (message_delta and message_stop, or the final chunk and [DONE]).
C23_MalformedBlockSkipped ==
    sse.dir # "" =>
        LET rest == RunOver(StartOf(sse.dir), SelectSeq(sse.in, Decodes))
            n == Len(sse.out)
        IN /\ Written(sse.out) = Written(rest.out)
           /\ sse.pc = rest.pc
           /\ (sse.pc = "done" /\ \E i \in DOMAIN sse.in : ~Decodes(sse.in[i]))
                => /\ n >= 2
                   /\ IF sse.dir = "o2a"
                      THEN sse.out[n - 1].ev = "message_delta"
                           /\ sse.out[n].ev = "message_stop"
                      ELSE sse.out[n - 1].type = "finish_reason"
                           /\ sse.out[n].ev = "[DONE]"

\* A run that ended read a delta, then data that does not decode, then
\* another delta, and wrote both deltas.
C23_Witness ==
    /\ sse.dir # "" /\ sse.pc = "done"
    /\ Len(sse.in) >= 3
    /\ BlockDeltas(sse.in[1]) # <<>>
    /\ ~Decodes(sse.in[2])
    /\ BlockDeltas(sse.in[3]) # <<>>
    /\ \E i, j \in DOMAIN sse.out :
         /\ IsOutDelta(sse.out[i]) /\ sse.out[i].src = 1
         /\ IsOutDelta(sse.out[j]) /\ sse.out[j].src = 3

(***************************************************************************)
(* The log bus.                                                            *)
(***************************************************************************)
Last(q) == q[Len(q)]

\* The step is a Publish.
Published == bus.ringCap > 0 /\ Len(bus'.published) = Len(bus.published) + 1

Ids(q) == {q[i].RequestID : i \in DOMAIN q}

\* C24: Publish can run in every state of the bus, whatever the channels of
\* the subscribers hold (it never waits for a subscriber), and the one step
\* it takes puts the event into the ring and into the channel of every
\* subscriber that has room; a subscriber whose channel is full does not get
\* the event, and nothing else changes for it or for the others.
C24_PublishNeverBlocks ==
    /\ []((bus.ringCap > 0 /\ Len(bus.published) < MaxPublish) => ENABLED Publish)
    /\ [][Published =>
            LET ev == Last(bus'.published)
            IN /\ Last(bus'.ring) = ev
               /\ bus'.subs = bus.subs
               /\ bus'.pc = bus.pc
               /\ bus'.written = bus.written
               /\ \A s \in SubIds :
                    IF s \in bus.subs /\ Len(bus.ch[s]) < MaxQueue
                    THEN bus'.ch[s] = Append(bus.ch[s], ev)
                    ELSE /\ ev.RequestID \notin Ids(bus'.ch[s])
                         /\ bus'.ch[s] = bus.ch[s]]_vars

\* An event was published while the channel of one subscriber was full and
\* the channel of another had room: the first lost it, the second has it.
C24_Witness ==
    /\ bus.ringCap > 0
    /\ \E s, t \in SubIds : \E id \in bus.dropped[s] :
         /\ Len(bus.ch[s]) = MaxQueue
         /\ id \notin Ids(bus.ch[s]) \cup Ids(bus.written[s])
         /\ id \in Ids(bus.ch[t]) \cup Ids(bus.written[t])
         /\ id \in Ids(bus.ring)

LastN(q, n) == SubSeq(q, Len(q) - n + 1, Len(q))

\* C25 as stated: a Publish that finds the channel of a subscriber full
\* discards the oldest queued event and enqueues the new one, so that after
\* every Publish the channel holds the most recently published events.
C25_DropOldest ==
    [][Published =>
         \A s \in bus.subs :
            /\ Len(bus.ch[s]) = MaxQueue
                 => bus'.ch[s] = Append(Tail(bus.ch[s]), Last(bus'.published))
            /\ bus'.ch[s] = LastN(bus'.published, Len(bus'.ch[s]))]_vars

\* C25 (amended): a Publish that finds the channel of a subscriber full
\* discards the new event for that subscriber and leaves the channel as it
\* was: the channel keeps the events queued earlier, all of them older than
\* the discarded one, in publish order.
C25_DropNewest ==
    [][Published =>
         \A s \in bus.subs :
            Len(bus.ch[s]) = MaxQueue
                => /\ bus'.ch[s] = bus.ch[s]
                   /\ Last(bus'.published).RequestID \in bus'.dropped[s]
                   /\ \A i \in DOMAIN bus'.ch[s] :
                        /\ bus'.ch[s][i].RequestID < Last(bus'.published).RequestID
                        /\ i > 1 => bus'.ch[s][i - 1].RequestID < bus'.ch[s][i].RequestID]_vars

\* The channel of a subscriber is full of events older than one it lost.
C25_Witness ==
    /\ bus.ringCap > 0
    /\ \E s \in bus.subs :
         /\ Len(bus.ch[s]) = MaxQueue
         /\ \E id \in bus.dropped[s] :
              \A i \in DOMAIN bus.ch[s] : bus.ch[s][i].RequestID < id

\* The events published while subscriber s was in subs that Publish could
\* enqueue for it.
Enqueued(s) ==
    LET hi == IF bus.pc[s] = "gone" THEN bus.until[s] ELSE Len(bus.published)
        Kept(e) == e.RequestID \notin bus.dropped[s]
    IN SelectSeq(SubSeq(bus.published, bus.since[s] + 1, hi), Kept)

\* The ring as it was when subscriber s was added to subs.
RingAt(s) ==
    LastN(SubSeq(bus.published, 1, bus.since[s]),
          IF bus.since[s] < bus.ringCap THEN bus.since[s] ELSE bus.ringCap)

\* C26: what a subscriber is sent is, first, the events that were in the
\* ring when it subscribed, and then, in publish order, the events published
\* from then on until it disconnects, without those that found its channel
\* full: nothing is written before the snapshot, what is written and what is
\* still queued make up exactly that sequence, and no event is in it twice.
C26_SnapshotThenLive ==
    bus.ringCap > 0 =>
        \A s \in SubIds :
            LET sent == bus.written[s] \o bus.ch[s]
            IN /\ bus.pc[s] = "idle" => sent = <<>>
               /\ bus.pc[s] # "idle" => bus.snapshot[s] = RingAt(s)
               /\ bus.pc[s] = "flush" =>
                    bus.written[s] = <<>> /\ bus.ch[s] = Enqueued(s)
               /\ bus.pc[s] \in {"loop", "gone"} =>
                    sent = bus.snapshot[s] \o Enqueued(s)
               /\ Cardinality(Ids(sent)) = Len(sent)

\* A subscriber has been sent a snapshot that was not empty and an event
\* published later, and has lost an event to a full channel.
C26_Witness ==
    /\ bus.ringCap > 0
    /\ \E s \in SubIds :
         /\ bus.pc[s] \in {"loop", "gone"}
         /\ bus.snapshot[s] # <<>>
         /\ Len(bus.written[s]) > Len(bus.snapshot[s])
         /\ bus.dropped[s] # {}

\* C27: the ring never holds more than ringCap events, and after k events
\* have been published it holds the last min(ringCap, k) of them, oldest
\* first.
C27_RingHoldsLatest ==
    bus.ringCap > 0 =>
        LET k == Len(bus.published)
        IN /\ Len(bus.ring) <= bus.ringCap
           /\ bus.ring = LastN(bus.published, IF k < bus.ringCap THEN k ELSE bus.ringCap)

\* More events were published than the ring holds: the oldest are gone.
C27_Witness ==
    /\ bus.ringCap > 0
    /\ Len(bus.published) > bus.ringCap + 1
    /\ Len(bus.ring) = bus.ringCap
    /\ bus.ring[1].RequestID > 1

(***************************************************************************)
(* Selection inside a pool.                                                *)
(***************************************************************************)
\* Request r makes its pick in this step: it finds a credential or fails.
Picks(r) == reqs[r].pc \in {"new", "pick"} /\ reqs'[r].pc \in {"picked", "done"}

\* The pool that the pick of this step works on, when the client key of the
\* request names one.
PoolOf(r) == cache.poolByClientKey[reqs'[r].clientKey]

\* The positions of the flat list whose credential is available to r.
AvailableAt(ids, exclude) ==
    {i \in DOMAIN ids : ids[i] \notin exclude /\ Usable(credState, now, ids[i])}

Least(S) == CHOOSE i \in S : \A j \in S : i <= j

\* C28: when the pool of a pick has no tiers and the stickiness cache does
\* not answer, a pool of strategy priority_failover yields the first
\* available credential of its list, and a pool of strategy least_inflight
\* the available credential with the smallest inflight, the first such in
\* list order; the pick fails only when no credential is available.
C28_FlatStrategy ==
    [][\A r \in ReqIds :
         (/\ Picks(r)
          /\ reqs'[r].pickErr # "unauthorized"
          /\ routeCache = <<>>)
            => LET pool == cache.poolByClientKey["k1"]
                   ids == pool.CredentialIDs
                   avail == AvailableAt(ids, reqs[r].exclude)
                   least == {i \in avail : \A j \in avail :
                                 getInflight(credState, ids[i])
                                     <= getInflight(credState, ids[j])}
               IN (Len(pool.Tiers) = 0
                   /\ pool.Strategy \in {"priority_failover", "least_inflight"})
                     => IF avail = {} THEN reqs'[r].pc = "done"
                        ELSE /\ reqs'[r].pc = "picked"
                             /\ reqs'[r].sel =
                                  IF pool.Strategy = "priority_failover"
                                  THEN ids[Least(avail)]
                                  ELSE ids[Least(least)]]_vars

\* The credentials of a provider that are available to a pick.
AvailableOf(provID, exclude) ==
    {c \in DOMAIN cache.credentials :
        /\ provID \in DOMAIN cache.providers
        /\ cache.credentials[c].ProviderID = provID
        /\ c \notin exclude
        /\ Usable(credState, now, c)}

\* The tier is for the model: it lists no model, or the model is blank, or
\* it lists the model, letter case and outer blanks aside.
TierFor(tier, model) ==
    \/ tier.Models = <<>>
    \/ TrimSpace(model) = <<>>
    \/ \E i \in DOMAIN tier.Models :
         ToLower(TrimSpace(tier.Models[i])) = ToLower(TrimSpace(model))

\* The items of a tier that have an available credential.
ItemsWithCandidate(tier, exclude) ==
    {i \in DOMAIN tier.Items : AvailableOf(tier.Items[i].ProviderID, exclude) # {}}

C30_UnknownKeyIs401 ==
    \A r \in ReqIds :
        (reqs[r].pc = "done" /\ reqs[r].pickErr = "unauthorized")
            => /\ reqs[r].reply.status = StatusUnauthorized
               /\ \/ reqs[r].reply.type = "authentication_error"
                  \/ reqs[r].reply.code = "unauthorized"

(***************************************************************************)
(* Answers of the handlers at the end of the attempt loop.                 *)
(***************************************************************************)
\* The iteration recorded in att was the last one of its request and its
\* upstream call returned a response with a status of 500 or more.
ExhaustedOn5xx ==
    /\ att.made
    /\ ~att.early
    /\ ~att.o.err
    /\ att.o.status >= 500
    /\ ~att.retry

\* C31: when the attempts of a request are exhausted and the upstream
\* answered 500 or more, the client receives 502 with the error object of
\* the facade (server_error on the OpenAI facade, api_error on the Anthropic
\* facade), whatever the dialect of the provider, same dialect included.
C31_Exhausted5xxIs502 ==
    ExhaustedOn5xx =>
        /\ att.reply.status = StatusBadGateway
        /\ att.reply.type = IF att.rq.kind = "chat" THEN "server_error" ELSE "api_error"

\* The credential used by the iteration recorded in att.
AttemptCred == att.rq.up.CredentialID

\* C35: a request rejected for the client's own request after a credential
\* was picked (the request does not transcode: 400; streaming needs a
\* conversion that does not exist: 501) does not count as a failure of the
\* credential: its consecutive failures do not grow and its circuit is left
\* as it was.
C35_ClientErrorNotCounted ==
    (/\ att.made
     /\ att.early
     /\ att.reply.status \in {StatusBadRequest, StatusNotImplemented})
    => /\ credState[AttemptCred].failures <= att.stateBefore.failures
       /\ credState[AttemptCred].openUntil = att.stateBefore.openUntil

\* The iteration recorded in att called RecordRouteResult with ok = true,
\* which stores or refreshes the stickiness entry of its key with its
\* credential.
MadeSticky == att.made /\ \E i \in DOMAIN att.recs : att.recs[i].ok

\* C36: the stickiness entry is created or refreshed for a credential only by
\* an attempt that the health registry counts as a success of that
\* credential; an upstream 401, 403 or 429 never makes it the sticky choice.
C36_StickyOnlyOnSuccess ==
    MadeSticky =>
        /\ credState[AttemptCred].successes > att.stateBefore.successes
        /\ att.o.status \notin {StatusUnauthorized, StatusForbidden,
                                StatusTooManyRequests}

\* The position of step x in the sequence s, 0 when it is not there.
IndexOf(s, x) ==
    IF \E i \in DOMAIN s : s[i] = x
    THEN CHOOSE i \in DOMAIN s : s[i] = x /\ \A j \in DOMAIN s : s[j] = x => i <= j
    ELSE 0

\* The iteration recorded in att consumed the upstream body.
ConsumesBody == att.made /\ \E i \in DOMAIN att.steps : att.steps[i] \in {"read", "stream"}

\* C38: the gateway cancels the context of an upstream call only after the
\* response body was read or streamed: where the handler consumes the body,
\* cancel() comes after it, never between the headers and the body.
C38_CancelAfterBody ==
    ConsumesBody =>
        /\ IndexOf(att.steps, "cancel") > IndexOf(att.steps, "read")
        /\ IndexOf(att.steps, "cancel") > IndexOf(att.steps, "stream")

(***************************************************************************)
(* Headers of the upstream request.                                        *)
(***************************************************************************)
\* The authentication header of each upstream shape and the value that
\* carries key.
AuthHeader(type) ==
    CASE type = "openai" -> "Authorization"
      [] type = "anthropic" -> "X-Api-Key"
      [] OTHER -> "X-Goog-Api-Key"

AuthValue(type, key) == IF type = "openai" THEN "Bearer " \o key ELSE key

\* C32: for every upstream shape the authentication header of the upstream
\* request carries the key of the picked credential, whatever the
\* provider's default_headers hold: they are applied last and may override
\* any header but that one.
C32_AuthHeaderIsKey ==
    (upreq.built /\ upreq.up.APIKey # "")
    => /\ AuthHeader(upreq.type) \in DOMAIN upreq.header
       /\ upreq.header[AuthHeader(upreq.type)] = AuthValue(upreq.type, upreq.up.APIKey)

(***************************************************************************)
(* Monotonicity of the credential score.                                   *)
(***************************************************************************)
\* The states that differ from st in one health input only, which is lower:
\* fewer consecutive failures, a lower latency average, or one request less
\* in flight.
Healthier(st) ==
    {[st EXCEPT !.failures = f] : f \in {g \in ScoreFailures : g < st.failures}}
    \cup {[st EXCEPT !.ewmaLatency = l] :
            l \in {m \in ScoreLatencies : m < st.ewmaLatency}}
    \cup {[st EXCEPT !.inflight = st.inflight - 1]}

\* C34: the credential score is monotone in the health inputs: with all else
\* equal, fewer consecutive failures, a lower ewma latency or a lower
\* inflight never give a lower score.
C34_ScoreMonotone ==
    (scored.called /\ credState[scored.c].present)
    => \A st \in Healthier(credState[scored.c]) :
          FracLE(scored.score,
                 credentialScore([credState EXCEPT ![scored.c] = st], scored.c,
                                 scored.baseWeight))

(***************************************************************************)
(* Pool membership of the picked credential.                               *)
(***************************************************************************)
\* The credentials reachable under a pool in the snapshot cfg: the members
\* of its credential_ids and the credentials of the providers of its tiers.
Members(cfg, pool) ==
    Range(pool.CredentialIDs)
    \cup {c \in DOMAIN cfg.credentials :
            \E i \in DOMAIN pool.Tiers : \E j \in DOMAIN pool.Tiers[i].Items :
               pool.Tiers[i].Items[j].ProviderID = cfg.credentials[c].ProviderID}

\* C37: a pick for a client key returns only credentials of the pool that
\* the client key resolves to in the snapshot used by the pick; a stickiness
\* entry recorded under an earlier snapshot never makes it return a
\* credential that is no longer in the pool.
C37_PickWithinPool ==
    [][\A r \in ReqIds :
         (Picks(r) /\ reqs'[r].pc = "picked")
            => reqs'[r].sel \in Members(cache, PoolOf(r))]_vars

(***************************************************************************)
(* SSE transcoding: one type per block of the Anthropic output.            *)
(***************************************************************************)
\* The delta type that belongs to a block type.
DeltaOf(blockType) ==
    CASE blockType = "thinking" -> "thinking_delta"
      [] blockType = "text" -> "text_delta"
      [] OTHER -> "input_json_delta"

\* C39: in the output of OpenAIToAnthropic every content_block_delta stands
\* on an index that a content_block_start opened before it, and its delta
\* type is the one of that block's type (thinking_delta on thinking,
\* text_delta on text, input_json_delta on tool_use), whatever the order of
\* reasoning, text and tool-call chunks in the input.
C39_OneTypePerIndex ==
    sse.dir = "o2a" =>
        LET out == sse.out
        IN \A i \in DOMAIN out :
             out[i].ev = "content_block_delta"
               => /\ \E k \in Starts(out, out[i].index) : k < i
                  /\ \A k \in Starts(out, out[i].index) :
                       out[i].type = DeltaOf(out[k].type)

(***************************************************************************)
(* The log bus: closing a subscriber's channel.                            *)
(***************************************************************************)
\* Publish puts an event into the channel of subscriber s in this step.
SendsTo(s) == Len(bus'.published) > Len(bus.published) /\ bus'.ch[s] # bus.ch[s]

\* C40: Publish never sends on a closed channel, however it interleaves with
\* a subscriber that disconnects: no closed channel is in the subscriber
\* set, so a channel is closed only after it was removed from the set, and
\* Publish sends only to channels that are in the set and not closed.
C40_NoSendOnClosed ==
    /\ [](bus.ringCap > 0 => (~bus.panicked /\ bus.subs \cap bus.closed = {}))
    /\ [][bus.ringCap > 0 =>
            \A s \in SubIds : SendsTo(s) => (s \in bus.subs /\ s \notin bus.closed)]_vars

\* The channel of subscriber 1 is closed and Publish has since put an event
\* into the channel of subscriber 2, which is still in the set.
C40_Witness ==
    /\ bus.ringCap > 0
    /\ 1 \in bus.closed
    /\ 2 \in bus.subs
    /\ bus.lateSends # {}

(***************************************************************************)
(* Round trip of a request through the two converters.                     *)
(***************************************************************************)
\* The content blocks of all messages of an Anthropic request, in order.
RECURSIVE allBlocks(_)
allBlocks(messages) ==
    IF messages = <<>> THEN <<>> ELSE Head(messages).content \o allBlocks(Tail(messages))

ToolUses(req) == SelectSeq(allBlocks(req.messages), LAMBDA b : b.type = "tool_use")

ToolResults(req) == SelectSeq(allBlocks(req.messages), LAMBDA b : b.type = "tool_result")

RoundTripped == xlat.done /\ ~xlat.fwd.err /\ ~xlat.back.err

\* C33: when AnthropicToOpenAIChatRequest and then
\* OpenAIToAnthropicMessageRequest both succeed, the request that comes back
\* has the system text of the original, as many messages with the same roles
\* in the same order, the same tool names in the same order, and a tool
\* result names the id of a tool call exactly when it did in the original.
C33_RoundTripPreserves ==
    RoundTripped =>
        LET a == xlat.ar
            b == xlat.back.req
        IN /\ systemText(b.system) = systemText(a.system)
           /\ Len(b.messages) = Len(a.messages)
           /\ \A i \in 1..Len(a.messages) : b.messages[i].role = a.messages[i].role
           /\ Len(ToolUses(b)) = Len(ToolUses(a))
           /\ \A i \in 1..Len(ToolUses(a)) : ToolUses(b)[i].name = ToolUses(a)[i].name
           /\ Len(ToolResults(b)) = Len(ToolResults(a))
           /\ \A i \in 1..Len(ToolUses(a)), j \in 1..Len(ToolResults(a)) :
                (ToolUses(b)[i].id = ToolResults(b)[j].tool_use_id)
                    <=> (ToolUses(a)[i].id = ToolResults(a)[j].tool_use_id)
====
